---- MODULE Spec2Model ----
(***************************************************************************)
(* Incremental reindex worker (src/worker.js): the round-robin scheduler   *)
(* reindexNightly, the per-folder change detector                          *)
(* reindexFolderIncremental, the stateless manual run, the folder registry *)
(* refresh, and the key-value store / Drive / vector index they share.     *)
(* One step of the model is the code between two awaits of a handler.      *)
(***************************************************************************)
EXTENDS Integers, Sequences, FiniteSets, TLC

\* ------------------------------------------------------------------ bounds
\* Handler invocations (runs, refreshes) in one behaviour.
MaxRuns == 3
\* Runs in one behaviour of a Drive whose files change.
MaxDetRuns == 2
\* External changes to the files of the Drive in one behaviour.
MaxMut == 1
\* Bytes of an uploaded stream.
MaxBytes == 4
\* chunkSize of an upload, in bytes.
MaxChunk == 3
\* Hits that a vector query returns.
MaxHits == 4
\* Changed images of a folder.
MaxFiles == 101
\* Slider input events of the browser app in one behaviour.
MaxSlides == 3

\* ------------------------------------------------------- program constants
DEFAULT_LIMIT_FOLDERS == 5
LIMIT_FOLDERS_CAP == 100
DEFAULT_MAX_CHANGED == 150
DEFAULT_MAX_PER_RUN == 10
CRON_LIMIT_FOLDERS == 1
CRON_MAX_CHANGED == 12
UPSERT_BATCH == 50
DEFAULT_TOPK_ITEMS == 5
TOPK_ITEMS_CAP == 50
TOP_HITS == 3

\* ------------------------------------------------------ JavaScript numbers
\* Number(...) yields an integer or NaN; NaN and Infinity are two values
\* outside the range of every count of the model.
NaN == -1000000
Infinity == 1000000

isFinite(x) == x # NaN /\ x # Infinity

\* Math.max / Math.min: NaN if either argument is NaN.
MathMax(a, b) == IF a = NaN \/ b = NaN THEN NaN ELSE IF a >= b THEN a ELSE b
MathMin(a, b) == IF a = NaN \/ b = NaN THEN NaN ELSE IF a <= b THEN a ELSE b

\* a >= b: false whenever an operand is NaN.
JsGE(a, b) == a # NaN /\ b # NaN /\ a >= b

\* a > b: false whenever an operand is NaN.
JsGT(a, b) == a # NaN /\ b # NaN /\ a > b

\* a + b and a - b on integers or NaN.
JsAdd(a, b) == IF a = NaN \/ b = NaN THEN NaN ELSE a + b
JsSub(a, b) == IF a = NaN \/ b = NaN THEN NaN
               ELSE IF a = Infinity THEN Infinity ELSE a - b

\* a % b for a >= 0, b > 0, or NaN.
JsMod(a, b) == IF a = NaN \/ b = NaN THEN NaN ELSE a % b

\* ToIntegerOrInfinity as Array.prototype.slice applies it: NaN becomes 0.
ToInteger(x) == IF x = NaN THEN 0 ELSE x

\* Array.prototype.slice(start, end) for start, end >= 0 or NaN.
Slice(arr, start, end) ==
  LET n == Len(arr)
      s == IF ToInteger(start) > n THEN n ELSE ToInteger(start)
      e == IF ToInteger(end) > n THEN n ELSE ToInteger(end)
  IN  IF e <= s THEN <<>> ELSE SubSeq(arr, s + 1, e)

\* ------------------------------------------------------ request parameters
\* A query parameter as URLSearchParams.get returns it: absent (null), a
\* non-numeric text, or the decimal text of an integer n.
RawAbsent == [kind |-> "absent", n |-> 0]
RawText == [kind |-> "text", n |-> 0]
RawNum(k) == [kind |-> "num", n |-> k]

\* Number(raw || dflt): null falls back to the default, any text (also
\* "0", a non-empty string) is converted.
NumberOr(raw, dflt) ==
  IF raw.kind = "absent" THEN dflt
  ELSE IF raw.kind = "text" THEN NaN ELSE raw.n

ParseLimitFolders(raw) ==
  MathMax(1, MathMin(NumberOr(raw, DEFAULT_LIMIT_FOLDERS), LIMIT_FOLDERS_CAP))
ParseMaxChanged(raw) == MathMax(0, NumberOr(raw, DEFAULT_MAX_CHANGED))
ParseStateless(raw) == raw = "0"
ParseStart(raw) == MathMax(0, NumberOr(raw, 0))
\* updateStatus: maxChanged > 0 (false for NaN).
UpdateStatusFlag(maxChanged) == maxChanged # NaN /\ maxChanged > 0

\* ---------------------------------------------------------- item id, meta
Digits == {"0", "1", "2", "3", "4", "5", "6", "7", "8", "9"}

RECURSIVE StripNonDigits(_)
StripNonDigits(s) ==
  IF s = <<>> THEN <<>>
  ELSE IF Head(s) \in Digits THEN <<Head(s)>> \o StripNonDigits(Tail(s))
       ELSE StripNonDigits(Tail(s))

RECURSIVE PadStart4(_)
PadStart4(s) == IF Len(s) >= 4 THEN s ELSE PadStart4(<<"0">> \o s)

Null == <<>>

\* normalizeItemId: the digits of raw, left-padded with "0" to four; null
\* (here the empty text) when raw holds no digit.
normalizeItemId(raw) ==
  LET s == StripNonDigits(raw) IN IF s = <<>> THEN Null ELSE PadStart4(s)

\* deriveItemMetaFromFolderName(name).itemId
deriveItemMetaFromFolderName(name) == normalizeItemId(name)

\* ------------------------------------------------------------- the Drive
\* The item folders that can exist under TRAINING_ROOT_FOLDER_ID, and what
\* files.list can answer for them: the Drive's folders come and go between
\* two listings, so each listing is an input of the step that reads it.
AllFolders == {1, 2, 3}
FolderListings == {<<>>, <<1>>, <<3, 1>>, <<1, 2, 3>>}

\* Collation rank of a folder's name (localeCompare order): folder 3 is
\* named before folder 1, folder 2 last.
FolderNameRank(f) == CASE f = 3 -> 1 [] f = 1 -> 2 [] OTHER -> 3

\* itemId of the folder's Item####.json as readItemJson returns it; that of
\* folder 2 holds no digit.
ItemJsonItemId(f) ==
  CASE f = 1 -> <<"7">> [] f = 3 -> <<"I", "t", "1", "2">>
    [] OTHER -> <<"n", "a">>

\* Image files directly in the folder, and in its optional "sorted"
\* sub-folder.
PrimaryFiles(f) == CASE f = 1 -> <<11>> [] f = 3 -> <<31>> [] OTHER -> <<>>
SortedFiles(f) == CASE f = 1 -> <<12>> [] OTHER -> <<>>
AllFiles == {11, 12, 31}

\* Content signature of a file: (md5Checksum, modifiedTime).
Sigs == [md5Checksum : {"a", "b"}, modifiedTime : {1, 2}]
Sig0 == [md5Checksum |-> "a", modifiedTime |-> 1]

Procs == {1, 2}

VARIABLES
  driveSig,      \* Drive: file id -> current content signature
  kvFolderIds,   \* KV reindex:folder_ids, the Folder Registry
  kvStatus,      \* KV reindex:status, the Reindex Status
  kvSeen,        \* KV seenmap:<folderId>, the Signature Store
  vecIndex,      \* vector index: file id -> signature of the bytes embedded
  pc,            \* per invocation: the await it is suspended at
  run,           \* per invocation: locals of the scheduler pass
  det,           \* per invocation: locals of reindexFolderIncremental
  started,       \* handler invocations so far
  mutations,     \* external changes to the Drive's files so far
  sweep,         \* history: the current series of consecutive full-budget runs
  prevCall,      \* history: the last detector call, while the Drive is unchanged
  upload,        \* locals, requests and responses of uploadResumableInChunks
  query,         \* the query-items handler: request, hits, result
  batches,       \* reindexFolderIncremental over a large folder: its batches
  admin,         \* an admin request: its token, the route, what it touched
  app            \* the browser app: model, jobs in flight, pending re-run

vars == <<driveSig, kvFolderIds, kvStatus, kvSeen, vecIndex, pc, run, det,
          started, mutations, sweep, prevCall, upload, query, batches, admin,
          app>>

ZeroCounts == [folders |-> 0, scanned |-> 0, changed |-> 0, skipped |-> 0]
\* counts: {} of a status that no run has written.
NoCounts == [folders |-> NaN, scanned |-> NaN, changed |-> NaN, skipped |-> NaN]

\* kvGetStatus on a missing key: { lastRun: null, counts: {} }; cursor and
\* totalFolders are undefined (NaN once converted by Number).
AbsentStatus ==
  [stored |-> FALSE, lastRun |-> 0, counts |-> NoCounts, cursor |-> NaN,
   totalFolders |-> NaN, lastRefresh |-> 0]

EmptyMap == [x \in {} |-> Sig0]
MapPut(m, k, v) == [x \in DOMAIN m \cup {k} |-> IF x = k THEN v ELSE m[x]]

\* The parameters of the manual run endpoint as the handler parsed them;
\* manual is false for a pass that no request started.
NoRequest ==
  [manual |-> FALSE, stateless |-> "absent", limitFolders |-> 0,
   maxChanged |-> 0, start |-> 0]

IdleRun ==
  [mode |-> "none", folderIds |-> <<>>, limitFolders |-> 0, maxChanged |-> 0,
   updateStatus |-> TRUE, start |-> 0, toProcess |-> 0, cursor0 |-> 0,
   nextCursor |-> 0, i |-> 0, counts |-> ZeroCounts, nextStart |-> 0,
   totalFolders |-> 0, status |-> AbsentStatus, status0 |-> AbsentStatus,
   visited |-> <<>>, wrote |-> FALSE, failedAt |-> "none",
   req |-> NoRequest]

\* History of a detector call on a folder: the listing it saw, whether it
\* persisted the seen map and whether its budget cut it short.
NoCall == [some |-> FALSE, folderId |-> 0, files |-> <<>>, wrote |-> FALSE,
           cut |-> FALSE]

\* No vector stored under a file id.
NoVec == [values |-> Sig0, itemId |-> Null, stored |-> FALSE]

IdleDet ==
  [folderId |-> 0, itemId4 |-> Null, maxChanged |-> 0, writeSeen |-> TRUE,
   files |-> <<>>, seenMap |-> EmptyMap, toUpsert |-> <<>>, scanned |-> 0,
   changed |-> 0, j |-> 0, at |-> "none",
   classified |-> {}, fetched |-> <<>>, upserted |-> <<>>, upsertCalls |-> 0,
   prev |-> NoCall, seen0 |-> EmptyMap, mutated |-> FALSE]

\* totalBytes of a request without a usable size header.
Undefined == -1

\* The total of a Content-Range header: "*" or a number.
Star == [star |-> TRUE, n |-> 0]
Total(n) == [star |-> FALSE, n |-> n]

\* The Range header of a 308 response: absent, or bytes=0-n.
NoRange == [present |-> FALSE, n |-> 0]
RangeTo(n) == [present |-> TRUE, n |-> n]

IdleUpload ==
  [pc |-> "idle", size |-> 0, totalBytes |-> Undefined, chunkSize |-> 0,
   read |-> 0, offset |-> 0, buffer |-> <<>>, requests |-> <<>>]

\* The query-items handler before a request.
IdleQuery ==
  [pc |-> "idle", requested |-> RawAbsent, topKItems |-> 0, hits |-> <<>>,
   items |-> <<>>, binding |-> FALSE, via |-> "none"]

IdleBatch ==
  [pc |-> "idle", files |-> 0, maxChanged |-> 0, changed |-> 0,
   toUpsert |-> <<>>, calls |-> <<>>]

\* req.headers.get of a header that is absent; env.ADMIN_TOKEN not set.
HeaderNull == "<null>"
EnvUndefined == "<undefined>"

IdleAdmin ==
  [pc |-> "idle", route |-> "none", token |-> HeaderNull,
   adminToken |-> EnvUndefined, remote |-> FALSE]

\* The page after its script has run: ensureModelReady() is under way, no
\* image is loaded; waiting and running count the calls of
\* removeUpperRightText suspended at ensureModelReady() and at
\* session.run(); slider counts the slider input events, used is the count
\* the sliders showed when the latest inference read them.
IdleApp ==
  [model |-> "loading", loadedImage |-> FALSE, isProcessing |-> FALSE,
   pendingAutoUpdate |-> FALSE, waiting |-> 0, running |-> 0, slider |-> 0,
   used |-> 0, started |-> 0]

NoSweep == [active |-> FALSE, c0 |-> 0, L |-> 0, total |-> 0, runs |-> 0,
            visited |-> {}]

Init ==
  /\ driveSig = [f \in AllFiles |-> Sig0]
  /\ kvFolderIds = <<>>
  /\ kvStatus = AbsentStatus
  /\ kvSeen = [f \in AllFolders |-> EmptyMap]
  /\ vecIndex = [f \in AllFiles |-> NoVec]
  /\ pc = [p \in Procs |-> "idle"]
  /\ run = [p \in Procs |-> IdleRun]
  /\ det = [p \in Procs |-> IdleDet]
  /\ started = 0
  /\ mutations = 0
  /\ sweep = NoSweep
  /\ prevCall = NoCall
  /\ upload = IdleUpload
  /\ query = IdleQuery
  /\ batches = IdleBatch
  /\ admin = IdleAdmin
  /\ app = IdleApp

\* ------------------------------------------------- reindexNightly, pure
\* maxChanged of the pass: opts.maxChanged if finite, else the default
\* (env.REINDEX_MAX_CHANGED_PER_RUN unset).
EffMaxChanged(opt) == IF isFinite(opt) THEN opt ELSE DEFAULT_MAX_PER_RUN

\* limitFolders of the pass over a registry of n folders.
EffLimitFolders(opt, n) ==
  LET l == IF isFinite(opt) THEN opt ELSE n IN IF l <= 0 THEN n ELSE l

\* cursor0: the persisted cursor modulo total, 0 if absent or invalid.
Cursor0(status, total) ==
  IF isFinite(status.cursor) THEN status.cursor % total ELSE 0

\* toProcess without the clamp to the registry's size.
ToProcessUnclamped(limitFolders, total) == limitFolders
ToProcess(limitFolders, total) == MathMin(limitFolders, total)
FolderIdx(cursor0, i, total) == (cursor0 + i) % total
\* nextCursor left on the folder just visited.
NextCursorStuck(idx, total) == idx % total
NextCursorAfter(idx, total) == (idx + 1) % total
BudgetReached(changed, maxChanged) == JsGE(changed, maxChanged)
\* remaining: the whole budget again for every folder.
RemainingWhole(maxChanged, changed) == MathMax(0, maxChanged)
Remaining(maxChanged, changed) == MathMax(0, JsSub(maxChanged, changed))

\* A status written with the cursor the pass started from.
RunStatusStartCursor(r, now) ==
  [stored |-> TRUE, lastRun |-> now, counts |-> r.counts,
   cursor |-> r.cursor0, totalFolders |-> Len(r.folderIds),
   lastRefresh |-> 0]

\* The status object the pass persists at its end.
RunStatus(r, now) ==
  [stored |-> TRUE, lastRun |-> now, counts |-> r.counts,
   cursor |-> r.nextCursor, totalFolders |-> Len(r.folderIds),
   lastRefresh |-> 0]

\* The status object persisted when the registry is empty after hydration.
EmptyRunStatus(r, now) ==
  [stored |-> TRUE, lastRun |-> now, counts |-> r.counts, cursor |-> 0,
   totalFolders |-> 0, lastRefresh |-> 0]

\* Whether the pass persists its status at its end.
PersistAtEnd(r) == TRUE

\* Whether the pass persists a status for an empty registry.
PersistWhenEmpty(r) == r.updateStatus

\* ------------------------------------------------- stateless run, pure
\* folders.sort by name (stable insertion into the sorted prefix).
RECURSIVE SortByName(_)
InsertByName(f, sorted) ==
  LET k == Cardinality({x \in 1..Len(sorted) :
                          FolderNameRank(sorted[x]) <= FolderNameRank(f)})
  IN  SubSeq(sorted, 1, k) \o <<f>> \o SubSeq(sorted, k + 1, Len(sorted))
SortByName(fs) ==
  IF fs = <<>> THEN <<>>
  ELSE InsertByName(fs[Len(fs)], SortByName(SubSeq(fs, 1, Len(fs) - 1)))

StatelessSlice(folders, start, limitFolders) ==
  LET total == Len(folders)
      toProcess == MathMin(limitFolders, total)
      end == MathMin(JsAdd(start, toProcess), total)
  IN  Slice(folders, start, end)

\* A next offset that does not count the folders visited.
NextStartUnmoved(start, visited, total) ==
  JsMod(start, MathMax(1, total))

\* nextStart = (start + counts.folders) % Math.max(1, totalFolders).
NextStart(start, visited, total) ==
  JsMod(JsAdd(start, visited), MathMax(1, total))

\* writeSeen of the stateless run: maxChanged > 0 (false for NaN).
StatelessWriteSeen(maxChanged) == maxChanged # NaN /\ maxChanged > 0

\* ------------------------------------------ reindexFolderIncremental, pure
DetMaxChanged(opt) == IF isFinite(opt) THEN opt ELSE Infinity

SigOf(f) == [md5Checksum |-> f.md5Checksum, modifiedTime |-> f.modifiedTime]

\* isChanged that compares the checksum alone.
IsChangedByChecksum(seenMap, id, sig) ==
  \/ id \notin DOMAIN seenMap
  \/ seenMap[id].md5Checksum # sig.md5Checksum

\* isChanged: no stored signature, or one that differs in a component.
IsChanged(seenMap, id, sig) ==
  \/ id \notin DOMAIN seenMap
  \/ seenMap[id].md5Checksum # sig.md5Checksum
  \/ seenMap[id].modifiedTime # sig.modifiedTime

\* A cap that lets one more changed file through.
CapReachedLate(changed, maxChanged) == changed > maxChanged

\* The early stop of the loop: changed >= maxChanged.
CapReached(changed, maxChanged) == changed >= maxChanged

\* The for-loop over files from position d.j up to its next await: unchanged
\* files are counted and passed over; it stops at a changed file to fetch
\* ("fetch"), at the cap ("break"), or at the end of the listing ("end").
RECURSIVE ScanSync(_)
ScanSync(d) ==
  IF d.j > Len(d.files) THEN [d EXCEPT !.at = "end"]
  ELSE LET f == d.files[d.j]
           d1 == [d EXCEPT !.scanned = @ + 1]
       IN  IF ~IsChanged(d.seenMap, f.id, SigOf(f))
           THEN ScanSync([d1 EXCEPT !.j = @ + 1])
           ELSE IF CapReached(d.changed, d.maxChanged)
                THEN [d1 EXCEPT !.classified = @ \cup {f.id}, !.at = "break"]
                ELSE [d1 EXCEPT !.classified = @ \cup {f.id}, !.at = "fetch"]

\* A result whose skipped tells that no file was listed.
DetSkippedWhenEmpty(d) == IF d.itemId4 = Null THEN TRUE ELSE d.scanned = 0

\* skipped of the call's result: true for an un-labeled folder, else
\* changed === 0.
DetSkipped(d) == IF d.itemId4 = Null THEN TRUE ELSE d.changed = 0

\* A call that persists the seen map without the final upsert.
AfterScanPcSkipsFlush(d) ==
  IF d.at = "fetch" THEN "fetch"
  ELSE IF d.writeSeen THEN "putseen" ELSE "ret"

\* Where the call suspends once the loop has stopped.
AfterScanPc(d) ==
  IF d.at = "fetch" THEN "fetch"
  ELSE IF d.toUpsert # <<>> THEN "flush"
  ELSE IF d.writeSeen THEN "putseen" ELSE "ret"

\* vecUpsertREST(entries): each entry overwrites the vector of its id.
RECURSIVE UpsertAll(_, _)
UpsertAll(index, entries) ==
  IF entries = <<>> THEN index
  ELSE UpsertAll([index EXCEPT ![Head(entries).id] =
                    [values |-> Head(entries).values,
                     itemId |-> Head(entries).itemId, stored |-> TRUE]],
                 Tail(entries))

\* driveListImagesWithMeta: the folder's images, then those of "sorted"
\* when the sub-folder query succeeds.
ListImagesWithMeta(folderId, sortedOk, sigs) ==
  LET ids == PrimaryFiles(folderId)
               \o (IF sortedOk THEN SortedFiles(folderId) ELSE <<>>)
  IN  [k \in 1..Len(ids) |->
         [id |-> ids[k], md5Checksum |-> sigs[ids[k]].md5Checksum,
          modifiedTime |-> sigs[ids[k]].modifiedTime]]

\* ----------------------------------------------------------------- inputs
\* What a behaviour's requests and remote services may supply: the listings
\* the Drive answers, the raw query parameters of a manual run, whether the
\* requests of readItemJson and the "sorted" query succeed, and the awaits
\* at which a remote call can fail.
AwaitPcs ==
  {"n_hydrate", "n_setids", "n_empty", "n_status", "persist", "sl_list",
   "meta", "list", "seen", "fetch", "flush", "putseen", "r_list", "r_setids",
   "r_getstatus", "r_setstatus"}

SchedulerInputs ==
  [runs |-> MaxRuns,
   listings |-> FolderListings,
   limits |-> {RawAbsent, RawNum(0), RawNum(2)},
   maxes |-> {RawAbsent, RawText, RawNum(0), RawNum(2)},
   modes |-> {"absent", "0"},
   starts |-> {RawAbsent, RawNum(1)},
   oks |-> {TRUE},
   sortedOks |-> {TRUE},
   faults |-> AwaitPcs]

DetectorInputs ==
  [runs |-> MaxDetRuns,
   listings |-> {<<1>>},
   files |-> {11, 12},
   limits |-> {RawAbsent},
   maxes |-> {RawAbsent, RawText, RawNum(1)},
   modes |-> {"absent", "0"},
   starts |-> {RawAbsent},
   oks |-> BOOLEAN,
   sortedOks |-> BOOLEAN,
   faults |-> {"list", "seen", "fetch", "flush", "putseen"}]

ConcurrentInputs ==
  [runs |-> MaxRuns,
   listings |-> {<<3, 1>>, <<1, 2, 3>>},
   limits |-> {RawNum(0), RawNum(2)},
   maxes |-> {RawAbsent},
   modes |-> {"absent"},
   starts |-> {RawAbsent},
   oks |-> {TRUE},
   sortedOks |-> {TRUE},
   faults |-> {}]

SeenInputs ==
  [runs |-> MaxDetRuns,
   listings |-> {<<1>>},
   limits |-> {RawAbsent},
   maxes |-> {RawAbsent, RawText, RawNum(1)},
   modes |-> {"absent", "0"},
   starts |-> {RawAbsent},
   oks |-> {TRUE},
   sortedOks |-> {TRUE},
   faults |-> {}]

\* One manual run over the registry <<3, 1>> for request parameters that
\* are absent, non-numeric, negative, zero, small or huge.
ManualInputs ==
  [runs |-> 1,
   listings |-> {<<3, 1>>},
   limits |-> {RawAbsent, RawText, RawNum(-1), RawNum(0), RawNum(1000)},
   maxes |-> {RawAbsent, RawText, RawNum(-1), RawNum(1)},
   modes |-> {"absent", "0", "1"},
   starts |-> {RawAbsent, RawText, RawNum(-1), RawNum(1)},
   oks |-> {TRUE},
   sortedOks |-> {TRUE},
   faults |-> {}]

\* --------------------------------------------------------------- plumbing
\* new Date(): the time of a write.
Now == 1

Set(p, newPc, r, d) ==
  /\ pc' = [pc EXCEPT ![p] = newPc]
  /\ run' = [run EXCEPT ![p] = r]
  /\ det' = [det EXCEPT ![p] = d]

CanStart(p, runs) ==
  /\ pc[p] = "idle"
  /\ started < runs

\* The folder the loop is at.
CurFolder(r) ==
  IF r.mode = "stateful"
  THEN r.folderIds[FolderIdx(r.cursor0, r.i, Len(r.folderIds)) + 1]
  ELSE r.folderIds[r.i + 1]

\* The head of the scheduler loop, up to its next await: a record of the
\* locals and of where the pass suspends ("meta": readItemJson, "persist":
\* kvSetStatus) or ends ("done").
LoopHead(r) ==
  IF r.mode = "stateful"
  THEN IF r.i >= r.toProcess
       THEN [r |-> r, pc |-> IF PersistAtEnd(r) THEN "persist" ELSE "done"]
       ELSE LET total == Len(r.folderIds)
                idx == FolderIdx(r.cursor0, r.i, total)
                r1 == [r EXCEPT !.nextCursor = NextCursorAfter(idx, total)]
            IN  IF BudgetReached(r.counts.changed, r.maxChanged)
                THEN [r |-> r1,
                      pc |-> IF PersistAtEnd(r1) THEN "persist" ELSE "done"]
                ELSE [r |-> r1, pc |-> "meta"]
  ELSE IF r.i >= Len(r.folderIds)
          \/ BudgetReached(r.counts.changed, r.maxChanged)
       THEN [r |-> [r EXCEPT !.nextStart =
                      NextStart(r.start, r.counts.folders, r.totalFolders)],
             pc |-> "done"]
       ELSE [r |-> r, pc |-> "meta"]

\* The loop body after reindexFolderIncremental has returned d: the counts,
\* the check of the cap, and the next head of the loop.
AfterFolder(r, d) ==
  LET r1 == [r EXCEPT !.counts =
               [folders |-> @.folders + 1, scanned |-> @.scanned + d.scanned,
                changed |-> @.changed + d.changed,
                skipped |-> @.skipped + (IF DetSkipped(d) THEN 1 ELSE 0)],
             !.visited = Append(@, d.folderId)]
  IN  IF BudgetReached(r1.counts.changed, r1.maxChanged)
      THEN IF r.mode = "stateful"
           THEN [r |-> r1,
                 pc |-> IF PersistAtEnd(r1) THEN "persist" ELSE "done"]
           ELSE [r |-> [r1 EXCEPT !.nextStart =
                          NextStart(r1.start, r1.counts.folders,
                                    r1.totalFolders)],
                 pc |-> "done"]
      ELSE LoopHead([r1 EXCEPT !.i = @ + 1])

\* ------------------------------------------------------ starting a handler
\* !Array.isArray(folderIds) || folderIds.length === 0: kvGetFolderIds
\* answers an array, so the registry is missing when it is empty.
RegistryMissing(folderIds) == Len(folderIds) = 0

\* reindexNightly(env, opts) up to the result of kvGetFolderIds.
BeginNightly(p, optLimit, optMax, updateStatus, req) ==
  LET r == [IdleRun EXCEPT !.mode = "stateful", !.req = req,
                           !.maxChanged = EffMaxChanged(optMax),
                           !.limitFolders = optLimit,
                           !.updateStatus = updateStatus,
                           !.folderIds = kvFolderIds,
                           !.status0 = kvStatus]
  IN  IF RegistryMissing(kvFolderIds)
      THEN Set(p, "n_hydrate", r, IdleDet)
      ELSE Set(p, "n_status",
               [r EXCEPT !.limitFolders =
                  EffLimitFolders(optLimit, Len(kvFolderIds))], IdleDet)

\* A tick whose pass takes two folders.
ScheduledTwoFolders(p, inp) ==
  /\ CanStart(p, inp.runs)
  /\ started' = started + 1
  /\ BeginNightly(p, 2, CRON_MAX_CHANGED, TRUE, NoRequest)
  /\ UNCHANGED <<batches, admin, app, query, upload, driveSig, kvFolderIds,
                 kvStatus, kvSeen, vecIndex, mutations, sweep, prevCall>>

\* scheduled(event, env, ctx): one stateful pass, limitFolders 1, maxChanged 12.
Scheduled(p, inp) ==
  /\ CanStart(p, inp.runs)
  /\ started' = started + 1
  /\ BeginNightly(p, CRON_LIMIT_FOLDERS, CRON_MAX_CHANGED, TRUE,
                  NoRequest)
  /\ UNCHANGED <<batches, admin, app, query, upload, driveSig, kvFolderIds,
                 kvStatus, kvSeen, vecIndex, mutations, sweep, prevCall>>

\* POST /recognition/admin/reindex/run with the query parameters as given.
ManualRun(p, inp) ==
  /\ CanStart(p, inp.runs)
  /\ started' = started + 1
  /\ \E rawLimit \in inp.limits, rawMax \in inp.maxes,
        rawStateless \in inp.modes, rawStart \in inp.starts :
       LET limitFolders == ParseLimitFolders(rawLimit)
           maxChanged == ParseMaxChanged(rawMax)
           start == ParseStart(rawStart)
           req == [manual |-> TRUE, stateless |-> rawStateless,
                   limitFolders |-> limitFolders, maxChanged |-> maxChanged,
                   start |-> start]
       IN  IF ParseStateless(rawStateless)
           THEN Set(p, "sl_list",
                    [IdleRun EXCEPT !.mode = "stateless",
                                    !.req = req,
                                    !.limitFolders = limitFolders,
                                    !.maxChanged = maxChanged,
                                    !.start = start,
                                    !.status0 = kvStatus], IdleDet)
           ELSE BeginNightly(p, limitFolders, maxChanged,
                             UpdateStatusFlag(maxChanged), req)
  /\ UNCHANGED <<batches, admin, app, query, upload, driveSig, kvFolderIds,
                 kvStatus, kvSeen, vecIndex, mutations, sweep, prevCall>>

\* ------------------------------------------------- reindexNightly, steps
\* driveListItemFolders answers: folderIds = folders.map(f => f.id).
NightlyListFolders(p, listings) ==
  /\ pc[p] = "n_hydrate"
  /\ \E folders \in listings :
       Set(p, "n_setids", [run[p] EXCEPT !.folderIds = folders], det[p])
  /\ sweep' = NoSweep
  /\ UNCHANGED <<batches, admin, app, query, upload, driveSig, kvFolderIds,
                 kvStatus, kvSeen, vecIndex, started, mutations, prevCall>>

\* kvSetFolderIds completes; limitFolders is fixed; an empty registry ends
\* the pass, with a status write unless updateStatus is false.
NightlySetFolderIds(p) ==
  /\ pc[p] = "n_setids"
  /\ kvFolderIds' = run[p].folderIds
  /\ LET r == [run[p] EXCEPT !.limitFolders =
                 EffLimitFolders(@, Len(run[p].folderIds))]
     IN  IF Len(r.folderIds) = 0
         THEN Set(p, IF PersistWhenEmpty(r) THEN "n_empty" ELSE "done", r,
                  det[p])
         ELSE Set(p, "n_status", r, det[p])
  /\ UNCHANGED <<batches, admin, app, query, upload, driveSig, kvStatus,
                 kvSeen, vecIndex, started, mutations, sweep, prevCall>>

\* kvSetStatus of the empty registry completes.
NightlyEmptyStatus(p) ==
  /\ pc[p] = "n_empty"
  /\ kvStatus' = EmptyRunStatus(run[p], Now)
  /\ Set(p, "done", [run[p] EXCEPT !.wrote = TRUE], det[p])
  /\ UNCHANGED <<batches, admin, app, query, upload, driveSig, kvFolderIds,
                 kvSeen, vecIndex, started, mutations, sweep, prevCall>>

\* kvGetStatus answers: cursor0, and the loop runs to its first await.
NightlyGetStatus(p) ==
  /\ pc[p] = "n_status"
  /\ LET total == Len(run[p].folderIds)
         c0 == Cursor0(kvStatus, total)
         h == LoopHead([run[p] EXCEPT
                          !.cursor0 = c0, !.nextCursor = c0,
                          !.toProcess = ToProcess(run[p].limitFolders, total),
                          !.i = 0])
     IN  Set(p, h.pc, h.r, det[p])
  /\ UNCHANGED <<batches, admin, app, query, upload, driveSig, kvFolderIds,
                 kvStatus, kvSeen, vecIndex, started, mutations, sweep,
                 prevCall>>

CeilDiv(a, b) == (a + b - 1) \div b
Range(s) == {s[k] : k \in 1..Len(s)}

\* History: the series of consecutive completed stateful runs with the same
\* limitFolders over the same registry whose budget was never exhausted.
SweepAfter(sw, r) ==
  LET total == Len(r.folderIds)
      L == r.limitFolders
  IN  IF BudgetReached(r.counts.changed, r.maxChanged) THEN NoSweep
      ELSE IF sw.active /\ sw.L = L /\ sw.total = total
              /\ sw.runs < CeilDiv(total, L)
           THEN [sw EXCEPT !.runs = @ + 1,
                           !.visited = @ \cup Range(r.visited)]
           ELSE [active |-> TRUE, c0 |-> r.cursor0, L |-> L, total |-> total,
                 runs |-> 1, visited |-> Range(r.visited)]

\* kvSetStatus at the end of the pass completes.
NightlyPersist(p) ==
  /\ pc[p] = "persist"
  /\ kvStatus' = RunStatus(run[p], Now)
  /\ Set(p, "done", [run[p] EXCEPT !.wrote = TRUE], det[p])
  /\ sweep' = SweepAfter(sweep, run[p])
  /\ UNCHANGED <<batches, admin, app, query, upload, driveSig, kvFolderIds,
                 kvSeen, vecIndex, started, mutations, prevCall>>

\* ------------------------------------------------- stateless run, steps
\* driveListItemFolders answers: sort by name, slice, first loop head.
StatelessList(p, listings) ==
  /\ pc[p] = "sl_list"
  /\ \E listed \in listings :
       LET folders == SortByName(listed)
           r == [run[p] EXCEPT
                   !.totalFolders = Len(folders),
                   !.folderIds = StatelessSlice(folders, run[p].start,
                                                run[p].limitFolders),
                   !.i = 0]
           h == LoopHead(r)
       IN  Set(p, h.pc, h.r, det[p])
  /\ UNCHANGED <<batches, admin, app, query, upload, driveSig, kvFolderIds,
                 kvStatus, kvSeen, vecIndex, started, mutations, sweep,
                 prevCall>>

\* ----------------------------------------------- one folder of either run
\* meta.itemId after the fallback for a missing or unreadable Item json.
MetaItemId(mode, raw) ==
  IF raw # Null THEN raw
  ELSE IF mode = "stateful" THEN deriveItemMetaFromFolderName(<<>>) ELSE Null

\* A call that lists the folder's files whatever the item id.
DetEntryAlwaysLists(itemId4) == "list"

\* Where reindexFolderIncremental suspends first: it returns at once
\* without a valid item id, else awaits driveListImagesWithMeta.
DetEntry(itemId4) == IF itemId4 = Null THEN "ret" ELSE "list"

\* readItemJson answers (null when a request of it fails); the call of
\* reindexFolderIncremental runs to its first await, or returns at once for
\* a folder without a valid item id.
ReadItemJson(p, oks) ==
  /\ pc[p] = "meta"
  /\ \E ok \in oks :
       LET r == run[p]
           f == CurFolder(r)
           raw == IF ok THEN ItemJsonItemId(f) ELSE Null
           itemId4 == normalizeItemId(MetaItemId(r.mode, raw))
           remaining == Remaining(r.maxChanged, r.counts.changed)
           d == [IdleDet EXCEPT
                   !.folderId = f, !.itemId4 = itemId4,
                   !.maxChanged = DetMaxChanged(remaining),
                   !.writeSeen = IF r.mode = "stateful" THEN TRUE
                                 ELSE StatelessWriteSeen(r.maxChanged)]
       IN  Set(p, DetEntry(itemId4), r, d)
  /\ UNCHANGED <<batches, admin, app, query, upload, driveSig, kvFolderIds,
                 kvStatus, kvSeen, vecIndex, started, mutations, sweep,
                 prevCall>>

\* driveListImagesWithMeta answers.
ListImages(p, sortedOks) ==
  /\ pc[p] = "list"
  /\ \E sortedOk \in sortedOks :
       Set(p, "seen", run[p],
           [det[p] EXCEPT
              !.files = ListImagesWithMeta(det[p].folderId, sortedOk, driveSig),
              !.prev = IF prevCall.folderId = det[p].folderId
                       THEN prevCall ELSE NoCall])
  /\ prevCall' = NoCall
  /\ UNCHANGED <<batches, admin, app, query, upload, driveSig, kvFolderIds,
                 kvStatus, kvSeen, vecIndex, started, mutations, sweep>>

\* kvGetFolderSeenMap answers; the loop over files runs to its first await.
GetSeenMap(p) ==
  /\ pc[p] = "seen"
  /\ LET d == ScanSync([det[p] EXCEPT !.seenMap = kvSeen[det[p].folderId],
                                      !.seen0 = kvSeen[det[p].folderId],
                                      !.j = 1])
     IN  Set(p, AfterScanPc(d), run[p], d)
  /\ UNCHANGED <<batches, admin, app, query, upload, driveSig, kvFolderIds,
                 kvStatus, kvSeen, vecIndex, started, mutations, sweep,
                 prevCall>>

\* A loop body that leaves the seen map as it was read.
EmbedBodyKeepsSeen(d, content) ==
  LET f == d.files[d.j]
      entry == [id |-> f.id, values |-> content, itemId |-> d.itemId4]
      batch == Append(d.toUpsert, entry)
      full == Len(batch) >= UPSERT_BATCH
  IN  [d EXCEPT !.toUpsert = IF full THEN <<>> ELSE batch,
                !.changed = @ + 1,
                !.fetched = Append(@, f.id),
                !.upserted = IF full THEN @ \o batch ELSE @,
                !.upsertCalls = IF full THEN @ + 1 ELSE @,
                !.j = @ + 1]

\* The rest of the loop body for the changed file at d.j, whose bytes were
\* fetched as content and embedded: push, seen map, count; a batch of 50 is
\* flushed into index.
EmbedBody(d, content) ==
  LET f == d.files[d.j]
      entry == [id |-> f.id, values |-> content, itemId |-> d.itemId4]
      batch == Append(d.toUpsert, entry)
      full == Len(batch) >= UPSERT_BATCH
  IN  [d EXCEPT !.toUpsert = IF full THEN <<>> ELSE batch,
                !.seenMap = MapPut(@, f.id, SigOf(f)),
                !.changed = @ + 1,
                !.fetched = Append(@, f.id),
                !.upserted = IF full THEN @ \o batch ELSE @,
                !.upsertCalls = IF full THEN @ + 1 ELSE @,
                !.j = @ + 1]

\* fetchDriveFileBytesById and embedImageVertex answer for the file at d.j
\* (and vecUpsertREST, when the batch is full); the loop runs on.
Embed(p) ==
  /\ pc[p] = "fetch"
  /\ LET d0 == det[p]
         full == Len(d0.toUpsert) + 1 >= UPSERT_BATCH
         d1 == EmbedBody(d0, driveSig[d0.files[d0.j].id])
         d == ScanSync(d1)
     IN  /\ Set(p, AfterScanPc(d), run[p], d)
         /\ vecIndex' = IF full
                        THEN UpsertAll(vecIndex,
                               SubSeq(d1.upserted,
                                      Len(d0.upserted) + 1, Len(d1.upserted)))
                        ELSE vecIndex
  /\ UNCHANGED <<batches, admin, app, query, upload, driveSig, kvFolderIds,
                 kvStatus, kvSeen, started, mutations, sweep, prevCall>>

\* The final vecUpsertREST of a non-empty batch answers.
Flush(p) ==
  /\ pc[p] = "flush"
  /\ vecIndex' = UpsertAll(vecIndex, det[p].toUpsert)
  /\ Set(p, IF det[p].writeSeen THEN "putseen" ELSE "ret", run[p],
         [det[p] EXCEPT !.upserted = @ \o det[p].toUpsert,
                        !.upsertCalls = @ + 1,
                        !.toUpsert = <<>>])
  /\ UNCHANGED <<batches, admin, app, query, upload, driveSig, kvFolderIds,
                 kvStatus, kvSeen, started, mutations, sweep, prevCall>>

\* A write that stores only the signatures of the files the call processed.
PutSeenProcessedOnly(p) ==
  /\ pc[p] = "putseen"
  /\ kvSeen' = [kvSeen EXCEPT ![det[p].folderId] =
                  [id \in Range(det[p].fetched) |-> det[p].seenMap[id]]]
  /\ Set(p, "ret", run[p], det[p])
  /\ UNCHANGED <<batches, admin, app, query, upload, driveSig, kvFolderIds,
                 kvStatus, vecIndex, started, mutations, sweep, prevCall>>

\* kvPutFolderSeenMap completes.
PutSeen(p) ==
  /\ pc[p] = "putseen"
  /\ kvSeen' = [kvSeen EXCEPT ![det[p].folderId] = det[p].seenMap]
  /\ Set(p, "ret", run[p], det[p])
  /\ UNCHANGED <<batches, admin, app, query, upload, driveSig, kvFolderIds,
                 kvStatus, vecIndex, started, mutations, sweep, prevCall>>

\* reindexFolderIncremental has returned: the caller's loop runs on to its
\* next await or to its end.
FolderReturn(p) ==
  /\ pc[p] = "ret"
  /\ LET d == det[p]
         h == AfterFolder(run[p], d)
     IN  /\ Set(p, h.pc, h.r, IdleDet)
         /\ prevCall' =
              IF d.itemId4 = Null THEN prevCall
              ELSE IF d.mutated THEN NoCall
              ELSE [some |-> TRUE, folderId |-> d.folderId, files |-> d.files,
                    wrote |-> d.writeSeen, cut |-> d.at = "break"]
  /\ UNCHANGED <<batches, admin, app, query, upload, driveSig, kvFolderIds,
                 kvStatus, kvSeen, vecIndex, started, mutations, sweep>>

\* --------------------------- POST /recognition/admin/reindex/refresh-folders
\* A refresh that keeps the cursor it read.
RefreshKeepsCursor(status, n, now) ==
  [status EXCEPT !.stored = TRUE, !.totalFolders = n, !.lastRefresh = now]

\* The status the refresh persists: the one read, with the cursor reset.
RefreshStatus(status, n, now) ==
  [status EXCEPT !.stored = TRUE, !.cursor = 0, !.totalFolders = n,
                 !.lastRefresh = now]

Refresh(p, inp) ==
  /\ CanStart(p, inp.runs)
  /\ started' = started + 1
  /\ Set(p, "r_list", [IdleRun EXCEPT !.mode = "refresh",
                                      !.status0 = kvStatus], IdleDet)
  /\ UNCHANGED <<batches, admin, app, query, upload, driveSig, kvFolderIds,
                 kvStatus, kvSeen, vecIndex, mutations, sweep, prevCall>>

\* driveListItemFolders answers.
RefreshList(p, listings) ==
  /\ pc[p] = "r_list"
  /\ \E folders \in listings :
       Set(p, "r_setids", [run[p] EXCEPT !.folderIds = folders], det[p])
  /\ UNCHANGED <<batches, admin, app, query, upload, driveSig, kvFolderIds,
                 kvStatus, kvSeen, vecIndex, started, mutations, sweep,
                 prevCall>>

\* A refresh that leaves the registry as it is.
RefreshKeepsFolderIds(p) ==
  /\ pc[p] = "r_setids"
  /\ sweep' = NoSweep
  /\ Set(p, "r_getstatus", run[p], det[p])
  /\ UNCHANGED <<batches, admin, app, query, upload, driveSig, kvFolderIds,
                 kvStatus, kvSeen, vecIndex, started, mutations, prevCall>>

\* kvSetFolderIds completes.
RefreshSetFolderIds(p) ==
  /\ pc[p] = "r_setids"
  /\ kvFolderIds' = run[p].folderIds
  /\ sweep' = NoSweep
  /\ Set(p, "r_getstatus", run[p], det[p])
  /\ UNCHANGED <<batches, admin, app, query, upload, driveSig, kvStatus,
                 kvSeen, vecIndex, started, mutations, prevCall>>

\* kvGetStatus answers.
RefreshGetStatus(p) ==
  /\ pc[p] = "r_getstatus"
  /\ Set(p, "r_setstatus", [run[p] EXCEPT !.status = kvStatus], det[p])
  /\ UNCHANGED <<batches, admin, app, query, upload, driveSig, kvFolderIds,
                 kvStatus, kvSeen, vecIndex, started, mutations, sweep,
                 prevCall>>

\* kvSetStatus completes.
RefreshSetStatus(p) ==
  /\ pc[p] = "r_setstatus"
  /\ kvStatus' = RefreshStatus(run[p].status, Len(run[p].folderIds), Now)
  /\ Set(p, "done", [run[p] EXCEPT !.wrote = TRUE], det[p])
  /\ UNCHANGED <<batches, admin, app, query, upload, driveSig, kvFolderIds,
                 kvSeen, vecIndex, started, mutations, sweep, prevCall>>

\* ------------------------------------------------- failure and completion
\* A pass that persists its status also on the way out of a failure.
StatusWrittenOnThrow(status, r) ==
  IF r.mode = "stateful" /\ Len(r.folderIds) > 0 THEN RunStatus(r, Now)
  ELSE status

\* The status in the store once an invocation has thrown: no handler of it
\* writes the status on the way out.
StatusAfterThrow(status, r) == status

\* The pending remote call fails: the error propagates out of the handler.
Abort(p, faults) ==
  /\ pc[p] \in faults
  /\ pc' = [pc EXCEPT ![p] = "aborted"]
  /\ run' = [run EXCEPT ![p].failedAt = pc[p]]
  /\ kvStatus' = StatusAfterThrow(kvStatus, run[p])
  /\ sweep' = IF run[p].mode = "stateless" THEN sweep ELSE NoSweep
  /\ UNCHANGED <<batches, admin, app, query, upload, driveSig, kvFolderIds,
                 kvSeen, vecIndex, det, started, mutations, prevCall>>

\* The response is sent (or the scheduled promise settles).
Return(p) ==
  /\ pc[p] \in {"done", "aborted"}
  /\ Set(p, "idle", IdleRun, IdleDet)
  /\ sweep' = IF pc[p] = "done" /\ run[p].mode = "stateful" /\ ~run[p].wrote
              THEN NoSweep ELSE sweep
  /\ UNCHANGED <<batches, admin, app, query, upload, driveSig, kvFolderIds,
                 kvStatus, kvSeen, vecIndex, started, mutations, prevCall>>

\* ------------------------------------------------------------ environment
FolderOf(file) ==
  CHOOSE f \in AllFolders : file \in Range(PrimaryFiles(f) \o SortedFiles(f))

\* A file's content or modification time changes in the Drive.
DriveMutateFile(files) ==
  /\ mutations < MaxMut
  /\ mutations' = mutations + 1
  /\ \E file \in files, s \in Sigs :
       /\ s # driveSig[file]
       /\ driveSig' = [driveSig EXCEPT ![file] = s]
       /\ prevCall' = IF prevCall.folderId = FolderOf(file)
                      THEN NoCall ELSE prevCall
       /\ det' = [p \in Procs |->
                    IF det[p].folderId = FolderOf(file)
                    THEN [det[p] EXCEPT !.mutated = TRUE] ELSE det[p]]
  /\ UNCHANGED <<batches, admin, app, query, upload, kvFolderIds, kvStatus,
                 kvSeen, vecIndex, pc, run, started, sweep>>

\* ---------------------------------------------------------- specification
\* The steps of one invocation p under the inputs inp.
Detector(p, inp) ==
  \/ ReadItemJson(p, inp.oks)
  \/ ListImages(p, inp.sortedOks)
  \/ GetSeenMap(p)
  \/ Embed(p)
  \/ Flush(p)
  \/ PutSeen(p)
  \/ FolderReturn(p)

Nightly(p, inp) ==
  \/ NightlyListFolders(p, inp.listings)
  \/ NightlySetFolderIds(p)
  \/ NightlyGetStatus(p)
  \/ NightlyPersist(p)

RefreshFolders(p, inp) ==
  \/ Refresh(p, inp)
  \/ RefreshList(p, inp.listings)
  \/ RefreshSetFolderIds(p)
  \/ RefreshGetStatus(p)
  \/ RefreshSetStatus(p)

\* Sequential invocations of every handler of the reindex, any remote call
\* of which may fail.
Next ==
  \/ Scheduled(1, SchedulerInputs)
  \/ ManualRun(1, SchedulerInputs)
  \/ Nightly(1, SchedulerInputs)
  \/ NightlyEmptyStatus(1)
  \/ StatelessList(1, SchedulerInputs.listings)
  \/ Detector(1, SchedulerInputs)
  \/ RefreshFolders(1, SchedulerInputs)
  \/ Abort(1, SchedulerInputs.faults)
  \/ Return(1)

Spec == Init /\ [][Next]_vars

\* Sequential runs over a fixed listing of a Drive whose files change, with
\* failures in the calls of reindexFolderIncremental.
NextDet ==
  \/ Scheduled(1, DetectorInputs)
  \/ ManualRun(1, DetectorInputs)
  \/ Nightly(1, DetectorInputs)
  \/ StatelessList(1, DetectorInputs.listings)
  \/ Detector(1, DetectorInputs)
  \/ Abort(1, DetectorInputs.faults)
  \/ Return(1)
  \/ DriveMutateFile(DetectorInputs.files)

SpecDet == Init /\ [][NextDet]_vars

\* Stateful runs that overlap.
NextConc ==
  \E p \in Procs :
    \/ Scheduled(p, ConcurrentInputs)
    \/ ManualRun(p, ConcurrentInputs)
    \/ Nightly(p, ConcurrentInputs)
    \/ Detector(p, ConcurrentInputs)
    \/ Return(p)

SpecConc == Init /\ [][NextConc]_vars

\* Runs of either kind that overlap on one folder.
NextSeen ==
  \E p \in Procs :
    \/ Scheduled(p, SeenInputs)
    \/ ManualRun(p, SeenInputs)
    \/ Nightly(p, SeenInputs)
    \/ StatelessList(p, SeenInputs.listings)
    \/ Detector(p, SeenInputs)
    \/ Return(p)

SpecSeen == Init /\ [][NextSeen]_vars

\* --------------------------------------------- the browser app, app.js
\* removeUpperRightText() from its first line to its first await or return,
\* in the state a of the page.
RemoveUpperRightText(a) ==
  IF ~a.loadedImage THEN [a EXCEPT !.pendingAutoUpdate = FALSE]
  ELSE IF a.isProcessing THEN [a EXCEPT !.pendingAutoUpdate = TRUE]
  ELSE IF a.model = "loading" THEN [a EXCEPT !.waiting = @ + 1]
  ELSE IF a.model = "error" THEN [a EXCEPT !.pendingAutoUpdate = FALSE]
  ELSE [a EXCEPT !.isProcessing = TRUE, !.running = @ + 1,
                 !.used = a.slider, !.started = @ + 1]

\* The calls suspended at ensureModelReady() go on, one after the other,
\* when the model load has settled: each to session.run(), or to its
\* return when the model is not ready.
RECURSIVE ResumeWaiting(_)
ResumeWaiting(a) ==
  IF a.waiting = 0 THEN a
  ELSE ResumeWaiting(
         IF a.model = "ready"
         THEN [a EXCEPT !.waiting = @ - 1, !.isProcessing = TRUE,
                        !.running = @ + 1, !.used = a.slider,
                        !.started = @ + 1]
         ELSE [a EXCEPT !.waiting = @ - 1, !.pendingAutoUpdate = FALSE])

\* The finally block of a call whose session.run() has settled.
AfterInference(a) ==
  LET a1 == [a EXCEPT !.isProcessing = FALSE, !.running = @ - 1]
  IN  IF a1.pendingAutoUpdate
      THEN RemoveUpperRightText([a1 EXCEPT !.pendingAutoUpdate = FALSE])
      ELSE a1

\* img.onload of a chosen file, or the change event without a file.
ImageChange ==
  /\ \E loaded \in BOOLEAN :
       /\ loaded # app.loadedImage
       /\ app' = [app EXCEPT !.loadedImage = loaded]
  /\ UNCHANGED <<batches, admin, query, upload, driveSig, kvFolderIds,
                 kvStatus, kvSeen, vecIndex, pc, run, det, started,
                 mutations, sweep, prevCall>>

\* The model load started by the script settles: ready, or failed.
ModelLoaded ==
  /\ app.model = "loading"
  /\ \E outcome \in {"ready", "error"} :
       app' = ResumeWaiting([app EXCEPT !.model = outcome])
  /\ UNCHANGED <<batches, admin, query, upload, driveSig, kvFolderIds,
                 kvStatus, kvSeen, vecIndex, pc, run, det, started,
                 mutations, sweep, prevCall>>

\* A click on the process button, enabled while an image is loaded, the
\* model is ready and isProcessing is false.
ProcessClick ==
  /\ app.loadedImage /\ app.model = "ready" /\ ~app.isProcessing
  /\ app.started < MaxSlides + 2
  /\ app' = RemoveUpperRightText(app)
  /\ UNCHANGED <<batches, admin, query, upload, driveSig, kvFolderIds,
                 kvStatus, kvSeen, vecIndex, pc, run, det, started,
                 mutations, sweep, prevCall>>

\* An input event of the width or height slider.
SliderInput ==
  /\ app.slider < MaxSlides
  /\ app' = RemoveUpperRightText([app EXCEPT !.slider = @ + 1,
                                             !.pendingAutoUpdate = TRUE])
  /\ UNCHANGED <<batches, admin, query, upload, driveSig, kvFolderIds,
                 kvStatus, kvSeen, vecIndex, pc, run, det, started,
                 mutations, sweep, prevCall>>

\* session.run() of one of the running calls settles.
InferenceDone ==
  /\ app.running > 0
  /\ app' = AfterInference(app)
  /\ UNCHANGED <<batches, admin, query, upload, driveSig, kvFolderIds,
                 kvStatus, kvSeen, vecIndex, pc, run, det, started,
                 mutations, sweep, prevCall>>

NextApp ==
  \/ ImageChange
  \/ ModelLoaded
  \/ ProcessClick
  \/ SliderInput
  \/ InferenceDone

SpecApp == Init /\ [][NextApp]_vars

\* The runtime settles every session.run() and the model load.
SpecAppLive == SpecApp /\ WF_vars(InferenceDone) /\ WF_vars(ModelLoaded)

\* ------------------------------------------------ the admin reindex routes
\* !x for a string, null or undefined.
Falsy(x) == x \in {HeaderNull, EnvUndefined, ""}

\* A guard that only compares the header with the configured token.
requireAdminCompareOnly(token, adminToken) == token = adminToken

\* requireAdmin(req, env) does not throw: env.ADMIN_TOKEN is set and the
\* x-admin-token header is identical to it.
requireAdmin(token, adminToken) == ~(Falsy(adminToken) \/ token # adminToken)

\* The admin reindex routes: bulk reindex, diag, peek, status,
\* refresh-folders, run.
AdminRoutes == {"reindex", "diag", "peek", "status", "refresh-folders", "run"}

\* One admin request with or without the header, to a deployment with or
\* without ADMIN_TOKEN; a run or refresh over the folders <<1>> or <<3, 1>>.
AdminInputs ==
  [runs |-> 1,
   listings |-> {<<1>>, <<3, 1>>},
   limits |-> {RawAbsent},
   maxes |-> {RawAbsent},
   modes |-> {"absent", "0"},
   starts |-> {RawAbsent},
   oks |-> {TRUE},
   sortedOks |-> {TRUE},
   faults |-> {},
   routes |-> AdminRoutes,
   tokens |-> {HeaderNull, "", "s1", "s2"},
   adminTokens |-> {EnvUndefined, "", "s1"}]

\* The request arrives at one of the routes: requireAdmin lets it pass or
\* the 401 response is returned.
AdminRequest(inp) ==
  /\ admin.pc = "idle"
  /\ \E route \in inp.routes, token \in inp.tokens,
        adminToken \in inp.adminTokens :
       admin' = [IdleAdmin EXCEPT
                   !.route = route, !.token = token,
                   !.adminToken = adminToken,
                   !.pc = IF requireAdmin(token, adminToken)
                          THEN "authorized" ELSE "rejected"]
  /\ UNCHANGED <<batches, app, query, upload, driveSig, kvFolderIds,
                 kvStatus, kvSeen, vecIndex, pc, run, det, started,
                 mutations, sweep, prevCall>>

\* The handler of the run route goes on behind the guard.
AdminRun(inp) ==
  /\ admin.pc = "authorized" /\ admin.route = "run"
  /\ ManualRun(1, inp)

\* The handler of the refresh-folders route goes on behind the guard.
AdminRefresh(inp) ==
  /\ admin.pc = "authorized" /\ admin.route = "refresh-folders"
  /\ Refresh(1, inp)

\* The handlers of status, diag, peek and bulk reindex go on behind the
\* guard, each with a first call to the store, the Drive or the index.
AdminOther ==
  /\ admin.pc = "authorized"
  /\ admin.route \in {"reindex", "diag", "peek", "status"}
  /\ admin' = [admin EXCEPT !.pc = "serving", !.remote = TRUE]
  /\ UNCHANGED <<batches, app, query, upload, driveSig, kvFolderIds,
                 kvStatus, kvSeen, vecIndex, pc, run, det, started,
                 mutations, sweep, prevCall>>

NextAdmin ==
  \/ AdminRequest(AdminInputs)
  \/ AdminRun(AdminInputs)
  \/ AdminRefresh(AdminInputs)
  \/ AdminOther
  \/ Nightly(1, AdminInputs)
  \/ StatelessList(1, AdminInputs.listings)
  \/ Detector(1, AdminInputs)
  \/ RefreshList(1, AdminInputs.listings)
  \/ RefreshSetFolderIds(1)
  \/ RefreshGetStatus(1)
  \/ RefreshSetStatus(1)
  \/ Return(1)

SpecAdmin == Init /\ [][NextAdmin]_vars

\* One manual run, for every combination of its request parameters.
NextManual ==
  \/ ManualRun(1, ManualInputs)
  \/ Nightly(1, ManualInputs)
  \/ StatelessList(1, ManualInputs.listings)
  \/ Detector(1, ManualInputs)
  \/ Return(1)

SpecManual == Init /\ [][NextManual]_vars

\* ------------------------------------------------- uploadResumableInChunks
\* The stream's bytes: the byte at position i (from 0) has the value i + 1.
StreamBytes(from, to) == [k \in 1..(to - from) |-> from + k]

\* What a request supplies: the length of the body stream, the chunk size,
\* and whether a size header gave the total (handleUploadStream passes the
\* header's number when it is positive, else undefined).
UploadInputs ==
  [sizes |-> 0..MaxBytes,
   chunkSizes |-> {2, MaxChunk},
   sizeKnown |-> BOOLEAN]

\* fileSize of handleUploadStream.
FileSize(known, size) == IF known /\ size > 0 THEN size ELSE Undefined

\* totalStr of a chunk request: totalBytes ? String(totalBytes) : "*".
TotalStr(totalBytes) ==
  IF totalBytes # Undefined /\ totalBytes # 0 THEN Total(totalBytes) ELSE Star

\* The total a finalize request declares: totalBytes ?? "*".
FinalizeTotal(totalBytes) ==
  IF totalBytes # Undefined THEN Total(totalBytes) ELSE Star

\* An acknowledged end that takes the whole chunk as held.
AcknowledgedEndOfChunk(range, end) == end

\* acknowledgedEnd of a 308 response: the n of "Range: bytes=0-n", or the
\* end of the chunk sent when the response carries no Range header.
AcknowledgedEnd(range, end) == IF range.present THEN range.n ELSE end

\* The PUT of the buffer as one chunk.
ChunkRequest(u) ==
  [kind |-> "chunk", start |-> u.offset,
   end |-> u.offset + Len(u.buffer) - 1,
   total |-> TotalStr(u.totalBytes), body |-> u.buffer,
   status |-> "pending", range |-> NoRange]

\* The zero-length PUT after the loop.
FinalizeRequest(u) ==
  [kind |-> "finalize", start |-> 0, end |-> -1,
   total |-> FinalizeTotal(u.totalBytes), body |-> <<>>,
   status |-> "pending", range |-> NoRange]

\* A loop that goes on reading when the stream has ended on an empty buffer.
AfterFillNoBreak(u) ==
  IF u.buffer = <<>> THEN u
  ELSE [u EXCEPT !.pc = "put", !.requests = Append(@, ChunkRequest(u))]

\* The buffer is filled, or the stream has ended: break to the finalize
\* request when the buffer is empty, else PUT the buffer.
AfterFill(u) ==
  IF u.buffer = <<>>
  THEN [u EXCEPT !.pc = "finalize",
                 !.requests = Append(@, FinalizeRequest(u))]
  ELSE [u EXCEPT !.pc = "put", !.requests = Append(@, ChunkRequest(u))]

\* The call, up to its first reader.read().
UploadStart(inp) ==
  /\ upload.pc = "idle"
  /\ \E size \in inp.sizes, chunkSize \in inp.chunkSizes,
        known \in inp.sizeKnown :
       upload' = [IdleUpload EXCEPT !.pc = "read", !.size = size,
                                    !.chunkSize = chunkSize,
                                    !.totalBytes = FileSize(known, size)]
  /\ UNCHANGED <<batches, admin, app, query, driveSig, kvFolderIds, kvStatus,
                 kvSeen, vecIndex, pc, run, det, started, mutations, sweep,
                 prevCall>>

\* reader.read() answers: done at the end of the stream, else a value of
\* any length the stream still holds; the fill loop runs on.
ReaderRead ==
  /\ upload.pc = "read"
  /\ \/ /\ upload.read = upload.size
        /\ upload' = AfterFill(upload)
     \/ \E len \in 1..(upload.size - upload.read) :
          LET value == StreamBytes(upload.read, upload.read + len)
              u == [upload EXCEPT !.buffer = @ \o value, !.read = @ + len]
          IN  upload' = IF Len(u.buffer) < u.chunkSize THEN u
                        ELSE AfterFill(u)
  /\ UNCHANGED <<batches, admin, app, query, driveSig, kvFolderIds, kvStatus,
                 kvSeen, vecIndex, pc, run, det, started, mutations, sweep,
                 prevCall>>

\* A failure after which the request is sent once more.
ResendAfterFailure(u, i) ==
  [u EXCEPT !.requests = Append([@ EXCEPT ![i].status = "failed"],
                                [@[i] EXCEPT !.status = "pending"])]

\* The response to request i is neither a 308 nor a success (for the
\* finalize request: not a success): the call throws.
ThrowAfterFailure(u, i) ==
  [u EXCEPT !.requests[i].status = "failed", !.pc = "thrown"]

\* The response to a chunk: 308 with or without a Range header, a success,
\* or any other status.
ChunkResponse ==
  /\ upload.pc = "put"
  /\ LET i == Len(upload.requests)
         req == upload.requests[i]
         lo == IF req.start > 0 THEN req.start - 1 ELSE 0
     IN  \/ \E range \in {NoRange} \cup {RangeTo(n) : n \in lo..req.end} :
              upload' = [upload EXCEPT
                           !.requests[i].status = "308",
                           !.requests[i].range = range,
                           !.offset = AcknowledgedEnd(range, req.end) + 1,
                           !.buffer = <<>>,
                           !.pc = "read"]
         \/ upload' = [upload EXCEPT !.requests[i].status = "ok",
                                     !.pc = "returned"]
         \/ upload' = ThrowAfterFailure(upload, i)
  /\ UNCHANGED <<batches, admin, app, query, driveSig, kvFolderIds, kvStatus,
                 kvSeen, vecIndex, pc, run, det, started, mutations, sweep,
                 prevCall>>

\* The response to the finalize request: a success, or any other status.
FinalizeResponse ==
  /\ upload.pc = "finalize"
  /\ LET i == Len(upload.requests)
     IN  \/ upload' = [upload EXCEPT !.requests[i].status = "ok",
                                     !.pc = "returned"]
         \/ upload' = ThrowAfterFailure(upload, i)
  /\ UNCHANGED <<batches, admin, app, query, driveSig, kvFolderIds, kvStatus,
                 kvSeen, vecIndex, pc, run, det, started, mutations, sweep,
                 prevCall>>

NextUpload ==
  \/ UploadStart(UploadInputs)
  \/ ReaderRead
  \/ ChunkResponse
  \/ FinalizeResponse

SpecUpload == Init /\ [][NextUpload]_vars

\* The runtime settles every awaited reader.read() and fetch: a call that
\* waits for one of them goes on.
SpecUploadLive ==
  /\ SpecUpload
  /\ WF_vars(ReaderRead)
  /\ WF_vars(ChunkResponse)
  /\ WF_vars(FinalizeResponse)

\* ------------------------------------------ POST /recognition/query-items
\* Scores are counted in units of 0.00001, weights as four decimals (hi) and
\* the next four (lo), products and sums in units of 0.000000001.
\* 1 / Math.log2(n).
InvLog2(n) ==
  CASE n = 2 -> [hi |-> 10000, lo |-> 0]
    [] n = 3 -> [hi |-> 6309, lo |-> 2975]
    [] n = 4 -> [hi |-> 5000, lo |-> 0]
    [] n = 5 -> [hi |-> 4306, lo |-> 7655]
    [] n = 6 -> [hi |-> 3868, lo |-> 5280]

\* w of the hit at rank i: 1 / Math.log2(1 + (i + 2)).
Weight(i) == InvLog2(1 + (i + 2))

\* score * w.
Times(score, w) == score * w.hi + (score * w.lo) \div 10000

\* Number(agg.toFixed(5)), for agg >= 0.
ToFixed5(agg) == (agg + 5000) \div 10000

\* Number(body.topKItems || dflt) for a JSON field that is absent, a text
\* or a number: the number 0 falls back to the default.
JsonNumberOr(raw, dflt) ==
  IF raw.kind = "absent" THEN dflt
  ELSE IF raw.kind = "text" THEN NaN
  ELSE IF raw.n = 0 THEN dflt ELSE raw.n

TopKItems(raw) ==
  MathMin(JsonNumberOr(raw, DEFAULT_TOPK_ITEMS), TOPK_ITEMS_CAP)

\* byItem.set(itemId, cur) after cur.hits.push(hit): the group of itemId
\* gets the hit, a new group goes to the end of the map.
ByItemAppend(groups, itemId, hit) ==
  Append(groups, [itemId |-> itemId, hits |-> <<hit>>])

ByItemPut(groups, itemId, hit) ==
  IF \E k \in 1..Len(groups) : groups[k].itemId = itemId
  THEN [k \in 1..Len(groups) |->
          IF groups[k].itemId = itemId
          THEN [groups[k] EXCEPT !.hits = Append(@, hit)] ELSE groups[k]]
  ELSE Append(groups, [itemId |-> itemId, hits |-> <<hit>>])

\* The first loop: byItem, in the order its keys were inserted; a hit whose
\* metadata item id does not normalize is passed over.
RECURSIVE ByItem(_)
ByItem(hits) ==
  IF hits = <<>> THEN <<>>
  ELSE LET h == hits[Len(hits)]
           prev == ByItem(SubSeq(hits, 1, Len(hits) - 1))
           itemId == normalizeItemId(h.itemId)
       IN  IF itemId = Null THEN prev
           ELSE ByItemPut(prev, itemId, [id |-> h.id, score |-> h.score])

\* v.hits.sort((a, b) => b.score - a.score): stable, descending.
InsertByScore(h, sorted) ==
  LET k == Cardinality({x \in 1..Len(sorted) : sorted[x].score >= h.score})
  IN  SubSeq(sorted, 1, k) \o <<h>> \o SubSeq(sorted, k + 1, Len(sorted))

RECURSIVE SortByScore(_)
SortByScore(hs) ==
  IF hs = <<>> THEN <<>>
  ELSE InsertByScore(hs[Len(hs)], SortByScore(SubSeq(hs, 1, Len(hs) - 1)))

\* A count of aggregated hits that takes every hit of the group.
AggCountAll(n) == n

\* m = Math.min(3, v.hits.length).
AggCount(n) == MathMin(TOP_HITS, n)

\* agg after the loop over the first m sorted hits.
RECURSIVE Agg(_, _)
Agg(sorted, m) ==
  IF m = 0 THEN 0
  ELSE Agg(sorted, m - 1) + Times(sorted[m].score, Weight(m - 1))

\* The entry pushed to items for one group.
ItemOf(group) ==
  LET sorted == SortByScore(group.hits)
  IN  [itemId |-> group.itemId,
       score |-> ToFixed5(Agg(sorted, AggCount(Len(sorted)))),
       best |-> sorted[1].score,
       coverId |-> sorted[1].id,
       hits |-> Slice(sorted, 0, TOP_HITS)]

\* A comparison of items by their aggregate score alone.
ItemBeforeByScore(a, b) == a.score >= b.score

\* a does not sort after b: b.score - a.score || b.best - a.best is <= 0.
ItemBefore(a, b) ==
  \/ a.score > b.score
  \/ a.score = b.score /\ a.best >= b.best

\* items.sort(...): stable.
InsertItem(it, sorted) ==
  LET k == Cardinality({x \in 1..Len(sorted) : ItemBefore(sorted[x], it)})
  IN  SubSeq(sorted, 1, k) \o <<it>> \o SubSeq(sorted, k + 1, Len(sorted))

RECURSIVE SortItems(_)
SortItems(items) ==
  IF items = <<>> THEN <<>>
  ELSE InsertItem(items[Len(items)],
                  SortItems(SubSeq(items, 1, Len(items) - 1)))

\* The items of the response.
QueryItemsResult(hits, topKItems) ==
  LET groups == ByItem(hits)
      items == [k \in 1..Len(groups) |-> ItemOf(groups[k])]
  IN  Slice(SortItems(items), 0, topKItems)

\* Hits the index can return: id, score and the item id of the metadata.
Hit(id, score, itemId) == [id |-> id, score |-> score, itemId |-> itemId]
HitPool ==
  {Hit(11, 90000, <<"7">>), Hit(12, 80000, <<"0", "0", "0", "7">>),
   Hit(13, 70000, <<"7">>), Hit(14, 60000, <<"0", "0", "0", "7">>),
   Hit(15, 2, <<"7">>), Hit(16, 80000, <<"I", "t", "3">>),
   Hit(17, 70000, <<"0", "0", "0", "7">>),
   Hit(31, 90002, <<"1", "2">>), Hit(41, 80000, Null)}

\* What a request and the index supply: the topKItems of the body and the
\* hits of the vector query, in any order.
QueryInputs ==
  [topKs |-> {RawAbsent, RawNum(0), RawNum(1), RawNum(2)},
   hitLists |-> UNION {{hs \in [1..n -> HitPool] :
                          \A i, j \in 1..n : i # j => hs[i] # hs[j]} :
                       n \in 0..MaxHits},
   bindings |-> BOOLEAN]

\* The implementation a call of vecQueryREST goes through.
vecQueryREST == "rest"

\* vecQuery(env, vector, topK, filter): the binding when env.RECO_INDEX has
\* a query function, else vecQueryREST.
vecQuery(binding) == IF binding THEN "binding" ELSE vecQueryREST

\* The request is parsed, the query image embedded, vecQueryREST called;
\* binding tells whether env.RECO_INDEX is available.
QueryItems(inp) ==
  /\ query.pc = "idle"
  /\ \E raw \in inp.topKs, binding \in inp.bindings :
       query' = [IdleQuery EXCEPT !.pc = "vec", !.requested = raw,
                                  !.topKItems = TopKItems(raw),
                                  !.binding = binding,
                                  !.via = vecQueryREST]
  /\ UNCHANGED <<batches, admin, app, upload, driveSig, kvFolderIds, kvStatus,
                 kvSeen, vecIndex, pc, run, det, started, mutations, sweep,
                 prevCall>>

\* POST /recognition/query: the input is embedded and vecQuery called.
RecognitionQuery(inp) ==
  /\ query.pc = "idle"
  /\ \E binding \in inp.bindings :
       query' = [IdleQuery EXCEPT !.pc = "photos", !.binding = binding,
                                  !.via = vecQuery(binding)]
  /\ UNCHANGED <<batches, admin, app, upload, driveSig, kvFolderIds, kvStatus,
                 kvSeen, vecIndex, pc, run, det, started, mutations, sweep,
                 prevCall>>

\* vecQueryREST answers: the hits are grouped, scored, sorted and cut.
VecQueryAnswer(inp) ==
  /\ query.pc = "vec"
  /\ \E hits \in inp.hitLists :
       query' = [query EXCEPT
                   !.pc = "done", !.hits = hits,
                   !.items = QueryItemsResult(hits, query.topKItems)]
  /\ UNCHANGED <<batches, admin, app, upload, driveSig, kvFolderIds, kvStatus,
                 kvSeen, vecIndex, pc, run, det, started, mutations, sweep,
                 prevCall>>

NextQuery ==
  \/ QueryItems(QueryInputs)
  \/ RecognitionQuery(QueryInputs)
  \/ VecQueryAnswer(QueryInputs)

SpecQuery == Init /\ [][NextQuery]_vars

\* ------------------------------- reindexFolderIncremental, a large folder
\* A detector call that never sends a batch before the end of the loop.
BatchNeverFull(toUpsert) == FALSE

\* toUpsert.length >= 50
BatchFull(toUpsert) == Len(toUpsert) >= UPSERT_BATCH

\* The calls over a labelled folder of up to MaxFiles images, none of them
\* in the seen map, under a budget that is absent, 50 or 51.
BatchInputs ==
  [files |-> 0..MaxFiles,
   maxes |-> {Infinity, UPSERT_BATCH, UPSERT_BATCH + 1}]

\* The for loop from its head to the next await: the fetch of the next
\* changed file, or past the loop the last vecUpsertREST or the return.
BatchLoop(b) ==
  IF b.changed < b.files /\ ~CapReached(b.changed, b.maxChanged)
  THEN [b EXCEPT !.pc = "fetch"]
  ELSE IF Len(b.toUpsert) > 0 THEN [b EXCEPT !.pc = "flushend"]
       ELSE [b EXCEPT !.pc = "ret"]

\* driveListImagesWithMeta and kvGetFolderSeenMap have answered.
BatchList(inp) ==
  /\ batches.pc = "idle"
  /\ \E n \in inp.files, maxChanged \in inp.maxes :
       batches' = BatchLoop([IdleBatch EXCEPT !.files = n,
                                              !.maxChanged = maxChanged])
  /\ UNCHANGED <<admin, app, query, upload, driveSig, kvFolderIds, kvStatus,
                 kvSeen, vecIndex, pc, run, det, started, mutations, sweep,
                 prevCall>>

\* The file's bytes are fetched and embedded: the entry is pushed, changed
\* counted, and a batch of 50 sent.
BatchEmbed ==
  /\ batches.pc = "fetch"
  /\ LET b == [batches EXCEPT !.toUpsert = Append(@, batches.changed + 1),
                              !.changed = @ + 1]
     IN  batches' = IF BatchFull(b.toUpsert) THEN [b EXCEPT !.pc = "flush"]
                    ELSE BatchLoop(b)
  /\ UNCHANGED <<admin, app, query, upload, driveSig, kvFolderIds, kvStatus,
                 kvSeen, vecIndex, pc, run, det, started, mutations, sweep,
                 prevCall>>

\* vecUpsertREST of a full batch has answered: toUpsert = [].
BatchFlush ==
  /\ batches.pc = "flush"
  /\ batches' = BatchLoop([batches EXCEPT !.calls = Append(@, batches.toUpsert),
                                          !.toUpsert = <<>>])
  /\ UNCHANGED <<admin, app, query, upload, driveSig, kvFolderIds, kvStatus,
                 kvSeen, vecIndex, pc, run, det, started, mutations, sweep,
                 prevCall>>

\* vecUpsertREST of the entries left after the loop has answered.
BatchFlushEnd ==
  /\ batches.pc = "flushend"
  /\ batches' = [batches EXCEPT !.calls = Append(@, batches.toUpsert),
                                !.pc = "ret"]
  /\ UNCHANGED <<admin, app, query, upload, driveSig, kvFolderIds, kvStatus,
                 kvSeen, vecIndex, pc, run, det, started, mutations, sweep,
                 prevCall>>

NextBatch ==
  \/ BatchList(BatchInputs)
  \/ BatchEmbed
  \/ BatchFlush
  \/ BatchFlushEnd

SpecBatch == Init /\ [][NextBatch]_vars

\* ------------------------------------------------- properties of the scheduler
Min(a, b) == IF a <= b THEN a ELSE b

\* The current series of consecutive runs has reached ceil(total / L) runs.
SweepComplete ==
  sweep.active /\ sweep.runs = CeilDiv(sweep.total, sweep.L)

\* A stateful pass of invocation p over a non-empty registry is at, or in,
\* the call of reindexFolderIncremental for a folder.
InFolder(p) ==
  /\ run[p].mode \in {"stateful", "stateless"}
  /\ pc[p] \in {"meta", "list", "seen", "fetch", "flush", "putseen", "ret"}

\* A stateful pass over a non-empty registry has returned.
CompletedStateful(p) ==
  /\ pc[p] = "done"
  /\ run[p].mode = "stateful"
  /\ Len(run[p].folderIds) > 0

\* C1. Coverage: after ceil(total / L) consecutive completed stateful runs
\* with limitFolders L over a registry of total > 0 folders, none of which
\* exhausted its change budget and with no refresh in between, every folder
\* of the registry has been visited, whatever cursor the series started from.
C1_Coverage ==
  SweepComplete => sweep.visited = Range(kvFolderIds)

\* A series of two runs that started from a cursor other than 0 is complete.
C1_Witness ==
  SweepComplete /\ sweep.runs >= 2 /\ sweep.c0 # 0

\* C2 as stated: after ceil(total / L) such runs the persisted cursor is the
\* cursor the series started from.
C2_CursorReturns ==
  SweepComplete => kvStatus.cursor = sweep.c0

\* C2, amended. After n consecutive completed stateful runs with an
\* unexhausted budget the persisted cursor is (c0 + n * min(L, total)) mod
\* total; after ceil(total / L) runs it is the starting cursor whenever
\* min(L, total) divides total.
C2_CursorAfterSweep ==
  sweep.active =>
    LET step == Min(sweep.L, sweep.total)
    IN  /\ kvStatus.cursor = (sweep.c0 + sweep.runs * step) % sweep.total
        /\ (SweepComplete /\ sweep.total % step = 0)
             => kvStatus.cursor = sweep.c0

\* A complete series of two runs of two folders each over three folders: the
\* cursor has not returned.
C2_Witness ==
  /\ SweepComplete
  /\ sweep.total = 3 /\ sweep.L = 2 /\ sweep.runs = 2
  /\ kvStatus.cursor # sweep.c0

\* C3 as stated: a completed stateful run that started at cursor c and
\* visited k folders has persisted the cursor (c + k) mod total, for every
\* maxChanged.
C3_CursorFollowsVisits ==
  \A p \in Procs :
    (CompletedStateful(p) /\ run[p].wrote) =>
      kvStatus.cursor =
        (run[p].cursor0 + Len(run[p].visited)) % Len(run[p].folderIds)

\* C4 as stated: a stateful run called with updateStatus = false leaves the
\* persisted status as it was before the run.
C4_DryRunKeepsStatus ==
  \A p \in Procs :
    (pc[p] = "done" /\ run[p].mode = "stateful" /\ ~run[p].updateStatus) =>
      kvStatus = run[p].status0

\* C5. A stateful run that aborts on a failed remote call has not written
\* the status: the persisted status, cursor included, is the one from
\* before the run.
C5_AbortKeepsStatus ==
  \A p \in Procs :
    (pc[p] = "aborted" /\ run[p].mode = "stateful") =>
      kvStatus = run[p].status0

\* A stateful run failed while listing, fetching or upserting, after its
\* cursor had moved on and a file of the folder had been embedded.
C5_Witness ==
  /\ pc[1] = "aborted"
  /\ run[1].mode = "stateful"
  /\ run[1].failedAt \in {"list", "fetch", "flush"}
  /\ run[1].nextCursor # run[1].cursor0
  /\ run[1].visited # <<>>

\* C6. In every run the accumulated changed count never exceeds maxChanged;
\* a folder handed to reindexFolderIncremental gets the budget that remains,
\* and is handed over only while the accumulated count is below maxChanged.
C6_Budget ==
  \A p \in Procs :
    LET r == run[p]
        d == det[p]
    IN  r.mode \in {"stateful", "stateless"} =>
          /\ ~JsGT(r.counts.changed + d.changed, r.maxChanged)
          /\ InFolder(p) => ~JsGE(r.counts.changed, r.maxChanged)
          /\ (InFolder(p) /\ pc[p] # "meta") =>
               d.maxChanged = IF r.maxChanged = NaN THEN Infinity
                              ELSE r.maxChanged - r.counts.changed

\* The second folder of a run with maxChanged = 2 was cut short by the one
\* change the first folder had left.
C6_Witness ==
  /\ pc[1] = "ret"
  /\ run[1].maxChanged = 2
  /\ run[1].counts.changed = 1
  /\ det[1].maxChanged = 1
  /\ det[1].changed = 1
  /\ det[1].at = "break"

\* C8 as stated: every persisted status has 0 <= cursor < totalFolders.
C8_CursorBelowTotal ==
  kvStatus.stored =>
    (0 <= kvStatus.cursor /\ kvStatus.cursor < kvStatus.totalFolders)

\* C8, amended. Every persisted status has 0 <= cursor < totalFolders when
\* totalFolders > 0 and cursor = 0 when totalFolders = 0, and every folder
\* index of a stateful run lies inside the registry it reads.
C8_CursorInRegistry ==
  /\ kvStatus.stored =>
       /\ kvStatus.totalFolders >= 0
       /\ IF kvStatus.totalFolders = 0 THEN kvStatus.cursor = 0
          ELSE 0 <= kvStatus.cursor /\ kvStatus.cursor < kvStatus.totalFolders
  /\ \A p \in Procs :
       (run[p].mode = "stateful" /\ InFolder(p)) =>
         LET total == Len(run[p].folderIds)
             idx == FolderIdx(run[p].cursor0, run[p].i, total)
         IN  /\ 0 <= run[p].cursor0 /\ run[p].cursor0 < total
             /\ 0 <= idx /\ idx < total

\* A refresh has persisted a status for an empty registry after a run had
\* moved the cursor.
C8_Witness ==
  /\ kvStatus.stored
  /\ kvStatus.totalFolders = 0
  /\ kvStatus.lastRefresh # 0
  /\ kvStatus.lastRun # 0

\* ------------------------------------------------ properties of concurrent runs
\* Both invocations are stateful passes that have returned after writing
\* the status, and both had read the same cursor of the same registry.
BothCompletedFromSameCursor ==
  /\ \A p \in Procs : CompletedStateful(p) /\ run[p].wrote
  /\ run[1].cursor0 = run[2].cursor0
  /\ run[1].folderIds = run[2].folderIds

\* C7. Two stateful runs that read the same cursor c and both complete leave
\* the cursor that one of them computed from c, (c + k) mod total for the k
\* folders that run visited: the later write replaces the earlier one, and
\* the advancement of the other run is lost.
C7_LostUpdate ==
  BothCompletedFromSameCursor =>
    kvStatus.cursor \in
      {(run[p].cursor0 + Len(run[p].visited)) % Len(run[p].folderIds) :
         p \in Procs}

\* Two overlapping runs of one folder each over three folders have both
\* completed, and the cursor has moved by one folder, not by two.
C7_Witness ==
  /\ BothCompletedFromSameCursor
  /\ Len(run[1].folderIds) = 3
  /\ Len(run[1].visited) = 1 /\ Len(run[2].visited) = 1
  /\ kvStatus.cursor = (run[1].cursor0 + 1) % 3
  /\ kvStatus.cursor # (run[1].cursor0 + 2) % 3

\* ------------------------------------------ properties of the change detector
\* The call of reindexFolderIncremental of invocation p has left its loop
\* over the folder's files, or is suspended in it.
Scanned(p) ==
  /\ det[p].folderId # 0
  /\ pc[p] \in {"fetch", "flush", "putseen", "ret", "aborted"}
  /\ det[p].scanned > 0

\* The k-th listed file has no stored signature, or one that differs from
\* the listed one in the checksum or in the modified time.
Differs(d, k) ==
  \/ d.files[k].id \notin DOMAIN d.seen0
  \/ d.seen0[d.files[k].id] # SigOf(d.files[k])

\* C9. In a call of reindexFolderIncremental every file the loop has looked
\* at is classified changed exactly when it has no stored signature or its
\* checksum or modified time differs from the stored one, and only files so
\* classified are fetched, embedded or upserted: a file whose stored
\* signature is identical is passed over.
C9_ChangeDetection ==
  \A p \in Procs :
    Scanned(p) =>
      LET d == det[p]
          handled == Range(d.fetched) \cup {d.upserted[k].id :
                                             k \in 1..Len(d.upserted)}
      IN  /\ \A k \in 1..d.scanned :
               (d.files[k].id \in d.classified) <=> Differs(d, k)
          /\ handled \subseteq d.classified
          /\ \A k \in 1..Len(d.files) :
               (d.files[k].id \in handled) => Differs(d, k)

\* A call has returned that passed over a file with an identical signature
\* and embedded and upserted one whose modified time alone had changed.
C9_Witness ==
  /\ pc[1] = "ret"
  /\ Scanned(1)
  /\ \E k \in 1..det[1].scanned :
       /\ ~Differs(det[1], k)
       /\ det[1].files[k].id \notin Range(det[1].fetched)
  /\ \E k \in 1..det[1].scanned :
       LET f == det[1].files[k]
       IN  /\ f.id \in DOMAIN det[1].seen0
           /\ det[1].seen0[f.id].md5Checksum = f.md5Checksum
           /\ det[1].seen0[f.id].modifiedTime # f.modifiedTime
           /\ f.id \in Range(det[1].fetched)
           /\ \E u \in 1..Len(det[1].upserted) : det[1].upserted[u].id = f.id

\* The call of invocation p has returned without a change.
NothingChanged(p) ==
  /\ det[p].changed = 0
  /\ det[p].fetched = <<>>
  /\ det[p].upsertCalls = 0

ChangedFiles(d) ==
  SelectSeq(d.files, LAMBDA f : \/ f.id \notin DOMAIN d.seen0
                                \/ d.seen0[f.id] # SigOf(f))

\* The call of invocation p, on a folder with a valid item id, has run to
\* its return.
Returned(p) ==
  /\ pc[p] = "ret"
  /\ det[p].itemId4 # Null

\* C11. A call of reindexFolderIncremental with budget maxChanged = m on a
\* folder with k changed files that runs to its return has fetched and
\* embedded exactly the first min(m, k) changed files in listing order and
\* reports changed = min(m, k); each changed file after those is neither
\* fetched nor given a new signature in the call's seen map nor in the stored
\* one, so the next call that lists it with this signature classifies it
\* changed again.
C11_BudgetRespect ==
  \A p \in Procs :
    Returned(p) =>
      LET d == det[p]
          ch == ChangedFiles(d)
          n == Min(d.maxChanged, Len(ch))
      IN  /\ d.changed = n
          /\ d.fetched = [k \in 1..n |-> ch[k].id]
          /\ \A k \in (n + 1)..Len(ch) :
               /\ ch[k].id \notin Range(d.fetched)
               /\ IsChanged(d.seenMap, ch[k].id, SigOf(ch[k]))
               /\ IsChanged(kvSeen[d.folderId], ch[k].id, SigOf(ch[k]))

\* A call with budget 1 on a folder with two changed files has returned:
\* it processed the first and left the second.
C11_Witness ==
  /\ Returned(1)
  /\ det[1].maxChanged = 1
  /\ Len(ChangedFiles(det[1])) = 2
  /\ det[1].changed = 1
  /\ det[1].at = "break"

\* C12. A call of reindexFolderIncremental on a folder with a valid item id
\* whose listing has n files of which k are changed, with maxChanged >= k,
\* returns scanned = n, changed = k and skipped = (k = 0), has made exactly
\* k fetch-and-embed calls, one per changed file, and has upserted those k
\* vectors in ceil(k / 50) calls of vecUpsertREST.
C12_FullScan ==
  \A p \in Procs :
    LET d == det[p]
        k == Len(ChangedFiles(d))
    IN  (Returned(p) /\ d.maxChanged >= k) =>
          /\ d.scanned = Len(d.files)
          /\ d.changed = k
          /\ DetSkipped(d) = (k = 0)
          /\ Len(d.fetched) = k
          /\ Range(d.fetched) = Range([i \in 1..k |-> ChangedFiles(d)[i].id])
          /\ [i \in 1..Len(d.upserted) |-> d.upserted[i].id] = d.fetched
          /\ d.upsertCalls = CeilDiv(k, UPSERT_BATCH)

\* A call with budget 150 on a folder of two files, one of them changed, has
\* returned: scanned 2, changed 1, not skipped, one embed, one upsert call.
C12_Witness ==
  /\ Returned(1)
  /\ det[1].maxChanged = DEFAULT_MAX_CHANGED
  /\ Len(det[1].files) = 2
  /\ Len(ChangedFiles(det[1])) = 1
  /\ det[1].scanned = 2 /\ det[1].changed = 1 /\ ~DetSkipped(det[1])
  /\ Len(det[1].fetched) = 1 /\ det[1].upsertCalls = 1

\* C13. A call of reindexFolderIncremental whose item id does not normalize
\* returns {scanned: 0, changed: 0, skipped: true} at once: it is never
\* suspended at the listing, at the read or the write of the seen map, at a
\* fetch or at an upsert, and it has listed, embedded and upserted nothing.
\* So every batch a call upserts, and every vector in the index, carries a
\* valid item id.
C13_UnlabeledSkipped ==
  /\ \A p \in Procs :
       LET d == det[p]
       IN  /\ (d.folderId # 0 /\ d.itemId4 = Null) =>
                /\ pc[p] = "ret"
                /\ d.scanned = 0 /\ d.changed = 0 /\ DetSkipped(d)
                /\ d.files = <<>> /\ d.at = "none"
                /\ d.seenMap = EmptyMap /\ d.classified = {}
                /\ d.fetched = <<>> /\ d.toUpsert = <<>>
                /\ d.upserted = <<>> /\ d.upsertCalls = 0
           /\ \A k \in 1..Len(d.upserted) : d.upserted[k].itemId # Null
           /\ \A k \in 1..Len(d.toUpsert) : d.toUpsert[k].itemId # Null
  /\ \A f \in AllFiles : vecIndex[f].stored => vecIndex[f].itemId # Null

\* A call without a valid item id has returned for a folder that holds a
\* file whose signature is not in the stored seen map.
C13_Witness ==
  /\ pc[1] = "ret"
  /\ det[1].folderId = 1 /\ det[1].itemId4 = Null
  /\ DetSkipped(det[1])
  /\ IsChanged(kvSeen[1], 11, driveSig[11])

EntryOf(m, id) == {m[i] : i \in DOMAIN m \cap {id}}

\* C15 as stated: an entry of a folder's stored seen map changes only in the
\* write of a call on that folder that passes writeSeen, and only for a file
\* that call has processed.
C15_OnlyProcessedChange ==
  [][\A f \in AllFolders : \A id \in AllFiles :
       EntryOf(kvSeen'[f], id) # EntryOf(kvSeen[f], id) =>
         \E p \in Procs :
           /\ pc[p] = "putseen" /\ pc'[p] = "ret"
           /\ det[p].folderId = f /\ det[p].writeSeen
           /\ id \in Range(det[p].fetched)]_vars

\* C15, amended. A folder's stored seen map changes only in the write of a
\* call on that folder that passes writeSeen; the map written is the one the
\* call read with new entries for the files it has processed and for no
\* other. So against the stored map that the write replaces, only entries of
\* processed files change when no other call has written the folder's map
\* since this call read it.
C15_SeenFrame ==
  [][\A f \in AllFolders :
       kvSeen'[f] # kvSeen[f] =>
         \E p \in Procs :
           /\ pc[p] = "putseen" /\ pc'[p] = "ret"
           /\ det[p].folderId = f /\ det[p].writeSeen
           /\ kvSeen'[f] = det[p].seenMap
           /\ \A id \in AllFiles :
                EntryOf(det[p].seenMap, id) # EntryOf(det[p].seen0, id)
                  => id \in Range(det[p].fetched)
           /\ kvSeen[f] = det[p].seen0 =>
                \A id \in AllFiles :
                  EntryOf(kvSeen'[f], id) # EntryOf(kvSeen[f], id)
                    => id \in Range(det[p].fetched)]_vars

\* Two calls on folder 1 have returned: one with budget 1 processed the
\* first of two changed files and wrote the seen map with that one new
\* entry; the other, a dry run, processed both and wrote nothing.
C15_Witness ==
  /\ Returned(1) /\ Returned(2)
  /\ det[1].writeSeen /\ det[1].at = "break" /\ det[1].fetched = <<11>>
  /\ DOMAIN det[1].seenMap = {11}
  /\ kvSeen[1] = det[1].seenMap
  /\ ~det[2].writeSeen /\ det[2].fetched = <<11, 12>>

\* ------------------------------------------- properties of the stateless run
\* C16. While a stateless run is in progress, no step changes the stored
\* status, the stored folder registry or a stored seen map.
C16_StatelessWritesNothing ==
  [][run[1].mode = "stateless" =>
       UNCHANGED <<kvStatus, kvFolderIds, kvSeen>>]_vars

\* The folders of listing l in the order of their names.
ByName(l) ==
  CHOOSE srt \in [1..Len(l) -> Range(l)] :
    /\ Range(srt) = Range(l)
    /\ \A i, j \in 1..Len(l) :
         i < j => FolderNameRank(srt[i]) < FolderNameRank(srt[j])

\* A stateless run of invocation p has completed.
CompletedStateless(p) ==
  /\ pc[p] = "done"
  /\ run[p].mode = "stateless"

\* C17. A completed stateless run with numeric offset start and limit
\* limitFolders, answered a listing of total folders, has visited in order
\* the folders at positions start, start + 1, ... of the listing sorted by
\* name, none at or after min(start + limitFolders, total), and returns
\* nextStart = (start + foldersVisited) mod total, which lies in [0, total)
\* when total > 0.
C17_StatelessSlice ==
  \A p \in Procs :
    CompletedStateless(p) =>
      LET r == run[p]
          total == r.totalFolders
          k == Len(r.visited)
          hi == Min(r.start + r.limitFolders, total)
      IN  /\ r.counts.folders = k
          /\ k <= IF hi > r.start THEN hi - r.start ELSE 0
          /\ \E l \in FolderListings :
               /\ Len(l) = total
               /\ \A i \in 1..k : r.visited[i] = ByName(l)[r.start + i]
          /\ total > 0 =>
               /\ r.nextStart = (r.start + k) % total
               /\ r.nextStart \in 0..(total - 1)

\* A stateless run with start 1 and limit 2 over three folders has visited
\* the second and third folder by name and returns nextStart 0.
C17_Witness ==
  /\ CompletedStateless(1)
  /\ run[1].start = 1 /\ run[1].limitFolders = 2 /\ run[1].totalFolders = 3
  /\ run[1].visited = <<1, 2>>
  /\ run[1].nextStart = 0

\* --------------------------------------------- properties of the upload
\* The requests the upload has sent, and those that are chunks.
Requests == upload.requests
IsChunk(i) == Requests[i].kind = "chunk"

\* C18. When the response to a chunk is a 308 whose Range header
\* acknowledges the bytes up to offset a (bytes=0-(a-1)), the next chunk
\* request's range starts at a, also when a is less than the end of the
\* chunk sent.
C18_ResumeAtAcknowledged ==
  \A i \in 1..(Len(Requests) - 1) :
    ( /\ IsChunk(i) /\ IsChunk(i + 1)
      /\ Requests[i].status = "308"
      /\ Requests[i].range.present )
    => Requests[i + 1].start = Requests[i].range.n + 1

\* A chunk of bytes 0-2 was acknowledged up to offset 1, and the next chunk
\* request's range starts at 1.
C18_Witness ==
  /\ Len(Requests) >= 2
  /\ IsChunk(1) /\ IsChunk(2)
  /\ Requests[1].start = 0 /\ Requests[1].end = 2
  /\ Requests[1].status = "308" /\ Requests[1].range = RangeTo(0)
  /\ Requests[2].start = 1

\* C19. Every chunk request carries, for its range start-end, exactly the
\* bytes at positions start..end of the input stream.
C19_ChunkCarriesItsRange ==
  \A i \in 1..Len(Requests) :
    IsChunk(i) =>
      Requests[i].body = StreamBytes(Requests[i].start, Requests[i].end + 1)

\* C20. When the stream has ended without a success response and the total
\* was not known upfront, the one finalize request declares the number of
\* bytes of the stream as the total of its range header.
C20_FinalizeDeclaresTotal ==
  \A i \in 1..Len(Requests) :
    (Requests[i].kind = "finalize" /\ upload.totalBytes = Undefined) =>
      /\ i = Len(Requests)
      /\ Requests[i].body = <<>>
      /\ Requests[i].total = Total(upload.size)

\* C21. A request whose response was neither a 308 nor a success is the
\* last request of the upload, and the call has thrown: no request follows
\* it, so the failed chunk is not sent again.
C21_FailureIsFatal ==
  \A i \in 1..Len(Requests) :
    Requests[i].status = "failed" =>
      /\ i = Len(Requests)
      /\ upload.pc = "thrown"

\* The second chunk of an upload got a failure status and the call has
\* thrown with two requests sent.
C21_Witness ==
  /\ upload.pc = "thrown"
  /\ Len(Requests) = 2
  /\ Requests[1].status = "308"
  /\ IsChunk(2) /\ Requests[2].status = "failed"

\* C22. Every chunk request carries at most chunkSize bytes, and a chunk
\* request that is followed by another chunk request carries exactly
\* chunkSize bytes.
C22_ChunkSize ==
  \A i \in 1..Len(Requests) :
    IsChunk(i) =>
      /\ Len(Requests[i].body) <= upload.chunkSize
      /\ (i < Len(Requests) /\ IsChunk(i + 1)) =>
           Len(Requests[i].body) = upload.chunkSize

\* ---------------------------------------- properties of the rank aggregator
\* The handler has answered with query.items.
Answered == query.pc = "done"

\* The weight 1 / log2(i + 2) of rank i, and the sum of the first m hits of
\* hs weighted by it.
WeightOfRank(i) == InvLog2(i + 2)
RECURSIVE WeightedSum(_, _)
WeightedSum(hs, m) ==
  IF m = 0 THEN 0
  ELSE WeightedSum(hs, m - 1) + Times(hs[m].score, WeightOfRank(m - 1))

\* C23. The aggregate score of every entity of the result is the sum over
\* its retained hits at rank i = 0, 1, 2 of score_i * 1 / log2(i + 2),
\* rounded to 5 decimals; so an entity with one hit has that hit's score.
C23_AggregateScore ==
  Answered =>
    \A k \in 1..Len(query.items) :
      LET it == query.items[k]
      IN  /\ it.score = ToFixed5(WeightedSum(it.hits, Len(it.hits)))
          /\ Len(it.hits) = 1 => it.score = it.hits[1].score

\* The hits of the vector query whose item id normalizes to itemId.
GroupOf(itemId) ==
  {h \in Range(query.hits) : normalizeItemId(h.itemId) = itemId}

\* C24. Every entity of the result retains min(3, n) of the n hits of its
\* group, in descending score order; no hit of the group that is not
\* retained scores higher than a retained one; the aggregate score is
\* computed from the retained hits alone; and best and coverId are the score
\* and the id of the first retained hit, the highest score of the group.
C24_TopThree ==
  Answered =>
    \A k \in 1..Len(query.items) :
      LET it == query.items[k]
          G == GroupOf(it.itemId)
          n == Len(it.hits)
          kept == {it.hits[i].id : i \in 1..n}
      IN  /\ n = Min(TOP_HITS, Cardinality(G))
          /\ n >= 1
          /\ \A i \in 1..n :
               \E h \in G : h.id = it.hits[i].id /\ h.score = it.hits[i].score
          /\ \A i, j \in 1..n : i < j => it.hits[i].score >= it.hits[j].score
          /\ \A h \in G : h.id \notin kept => h.score <= it.hits[n].score
          /\ it.score = ToFixed5(Agg(it.hits, n))
          /\ it.best = it.hits[1].score
          /\ it.coverId = it.hits[1].id
          /\ \A h \in G : h.score <= it.best

\* An entity whose group has four hits is answered with its three highest
\* hits 0.9, 0.8, 0.7.
C24_Witness ==
  /\ Answered
  /\ \E k \in 1..Len(query.items) :
       /\ Cardinality(GroupOf(query.items[k].itemId)) = 4
       /\ Len(query.items[k].hits) = 3
       /\ query.items[k].hits[1].score = 90000
       /\ query.items[k].hits[3].score = 70000
       /\ query.items[k].coverId = 11

\* The entities of the hits, each with the entry the handler computes.
AllItems == {ItemOf(g) : g \in Range(ByItem(query.hits))}

\* Entity a ranks strictly before entity b: a higher aggregate score, or
\* the same and a higher best score.
RanksBefore(a, b) ==
  \/ a.score > b.score
  \/ a.score = b.score /\ a.best > b.best

\* No entity of the result is outranked by a later one or by an entity
\* left out of the result.
RankedFirst ==
  /\ \A i, j \in 1..Len(query.items) :
       i < j => ~RanksBefore(query.items[j], query.items[i])
  /\ \A x \in AllItems :
       (\A k \in 1..Len(query.items) : query.items[k].itemId # x.itemId)
         => \A k \in 1..Len(query.items) : ~RanksBefore(x, query.items[k])

\* C25 as stated: the result lists the entities by descending aggregate
\* score, ties by descending best score, and for a requested top-N it holds
\* the first N entities under that order (all of them, if there are fewer).
C25_TopN ==
  (Answered /\ query.requested.kind = "num") =>
    /\ RankedFirst
    /\ Len(query.items) = Min(query.requested.n, Cardinality(AllItems))

\* C25, amended. The result lists the entities by descending aggregate
\* score, ties by descending best score, and holds the first n entities
\* under that order, where n is the requested N capped at 50, and 5 when N
\* is absent or 0.
C25_TopNDefaulted ==
  Answered =>
    LET r == query.requested
        n == IF r.kind = "absent" \/ r.n = 0 THEN DEFAULT_TOPK_ITEMS
             ELSE Min(r.n, TOPK_ITEMS_CAP)
    IN  /\ RankedFirst
        /\ Len(query.items) = Min(n, Cardinality(AllItems))

\* Two entities with the same aggregate score 0.56785 are answered with
\* the one of the higher best score first, although the index returned a
\* hit of the other one first; a third entity is cut off by N = 2.
C25_Witness ==
  /\ Answered
  /\ query.requested = RawNum(2)
  /\ Cardinality(AllItems) = 3
  /\ Len(query.items) = 2
  /\ query.items[1].score = query.items[2].score
  /\ query.items[1].best > query.items[2].best
  /\ normalizeItemId(query.hits[1].itemId) = query.items[2].itemId

\* The normalized entity ids the hits carry.
HitItemIds ==
  {normalizeItemId(h.itemId) : h \in Range(query.hits)} \ {Null}

\* C26: hits are grouped by normalized entity id. No two entities of the
\* result have the same id; the hits of an entity are hits of the answer
\* whose id normalizes to the entity's id, and there is at least one; a hit
\* without a recoverable id is in no entity; every normalized id has its
\* entity unless the top-N cut it off; no hits give no entities.
C26_GroupedByNormalizedId ==
  Answered =>
    LET items == query.items IN
    /\ \A i, j \in 1..Len(items) : i # j => items[i].itemId # items[j].itemId
    /\ \A k \in 1..Len(items) :
         /\ items[k].itemId \in HitItemIds
         /\ Len(items[k].hits) >= 1
         /\ \A i \in 1..Len(items[k].hits) :
              \E h \in GroupOf(items[k].itemId) : h.id = items[k].hits[i].id
    /\ \A h \in Range(query.hits) :
         normalizeItemId(h.itemId) = Null =>
           \A k \in 1..Len(items) :
             \A i \in 1..Len(items[k].hits) : items[k].hits[i].id # h.id
    /\ Len(items) = Min(query.topKItems, Cardinality(HitItemIds))
    /\ query.hits = <<>> => items = <<>>

\* Hits labelled "7" and "0007" are answered as one entity 0007, a hit
\* labelled "It3" as entity 0003, and a hit without an item id as none.
C26_Witness ==
  /\ Answered
  /\ Len(query.hits) = 4
  /\ \E h \in Range(query.hits) : h.itemId = Null
  /\ Len(query.items) = 2
  /\ \E k \in 1..2 :
       /\ query.items[k].itemId = <<"0", "0", "0", "7">>
       /\ {query.items[k].hits[i].id : i \in 1..Len(query.items[k].hits)}
            = {11, 12}
  /\ \E k \in 1..2 : query.items[k].itemId = <<"0", "0", "0", "3">>

\* C27: the Reindex Status is mutated only at the end of a completed
\* stateful run that is not a dry run: every step that changes the
\* persisted status is the status write of such a pass, and no step of a
\* stateless run, a dry run or a registry refresh changes any field of it.
C27_OnlySchedulerWritesStatus ==
  [][kvStatus' # kvStatus =>
       /\ pc[1] \in {"persist", "n_empty"}
       /\ run[1].mode = "stateful"
       /\ run[1].updateStatus]_vars

\* C28: the Folder Registry changes only by an explicit refresh or by a
\* stateful run that finds it empty: every step that changes the persisted
\* registry is the registry write of the refresh handler, or the one of a
\* stateful run made while the persisted registry is empty; no other step
\* of a stateful run and no step of a stateless run modifies it.
C28_RegistryStable ==
  [][kvFolderIds' # kvFolderIds =>
       \E p \in Procs :
         /\ pc'[p] # pc[p]
         /\ \/ pc[p] = "r_setids" /\ run[p].mode = "refresh"
            \/ /\ pc[p] = "n_setids"
               /\ run[p].mode = "stateful"
               /\ kvFolderIds = <<>>]_vars

\* The pass of invocation p is the one a scheduled tick invoked: the only
\* caller that passes maxChanged = 12.
Tick(p) ==
  /\ pc[p] # "idle"
  /\ run[p].mode = "stateful"
  /\ run[p].maxChanged = CRON_MAX_CHANGED

\* C29: a scheduled tick runs one stateful pass with limitFolders = 1 and
\* maxChanged = 12. When the pass completes over a non-empty registry of
\* total folders it has visited exactly one folder and the persisted cursor
\* is one past the cursor that was persisted before, modulo total, whether
\* or not the folder had changes. A series of total consecutive completed
\* passes with limitFolders = 1 has visited every folder of the registry,
\* each once, and the persisted cursor is back at the series' first cursor.
C29_TickAdvancesByOne ==
  /\ Tick(1) =>
       /\ run[1].limitFolders = CRON_LIMIT_FOLDERS
       /\ run[1].updateStatus
  /\ (Tick(1) /\ CompletedStateful(1)) =>
       LET total == Len(run[1].folderIds)
           before == IF isFinite(run[1].status0.cursor)
                     THEN run[1].status0.cursor ELSE 0
       IN  /\ run[1].wrote
           /\ Len(run[1].visited) = 1
           /\ run[1].counts.folders = 1
           /\ kvStatus.cursor = (before + 1) % total
           /\ kvStatus.totalFolders = total
  /\ (SweepComplete /\ sweep.L = CRON_LIMIT_FOLDERS) =>
       /\ sweep.runs = sweep.total
       /\ Cardinality(sweep.visited) = sweep.total
       /\ sweep.visited = Range(kvFolderIds)
       /\ kvStatus.cursor = sweep.c0

\* Three consecutive ticks over the registry <<1, 2, 3>> have completed:
\* folders 1, 2 and 3 were visited, folder 2 having nothing to index, and
\* the cursor is back at 0.
C29_Witness ==
  /\ Tick(1)
  /\ CompletedStateful(1)
  /\ SweepComplete
  /\ sweep.L = CRON_LIMIT_FOLDERS
  /\ sweep.total = 3
  /\ sweep.visited = {1, 2, 3}
  /\ run[1].visited = <<3>>
  /\ kvStatus.cursor = 0

\* C30: a failed read of a folder's entity metadata during a scheduler run
\* aborts the run and is never turned into an un-labeled folder: whenever a
\* stateful pass is in, or back from, the detector call for a folder, the
\* entity id it passed is the one of the folder's metadata.
C30_MetadataFailureAborts ==
  \A p \in Procs :
    (run[p].mode = "stateful" /\ InFolder(p) /\ pc[p] # "meta") =>
      det[p].itemId4 = normalizeItemId(ItemJsonItemId(det[p].folderId))

\* C31: whenever the native index binding is available, the queries the
\* system issues go through the binding, the entity-level aggregate query
\* included; the REST implementation is used only without the binding.
C31_BindingPreferred ==
  (query.pc # "idle" /\ query.binding) => query.via = "binding"

\* The entries of the upsert requests of the call, in the order sent.
RECURSIVE Concat(_)
Concat(ss) == IF ss = <<>> THEN <<>> ELSE Head(ss) \o Concat(Tail(ss))

\* C32: the pending batch of a detector call never holds more than 50
\* entries and an upsert request never carries more; when the call is over,
\* the requests together carry every processed file once, in processing
\* order, all requests but the last carry 50, and there are
\* ceil(changed / 50) of them.
C32_BatchesOfFifty ==
  /\ Len(batches.toUpsert) <= UPSERT_BATCH
  /\ \A k \in 1..Len(batches.calls) :
       /\ Len(batches.calls[k]) \in 1..UPSERT_BATCH
       /\ k < Len(batches.calls) => Len(batches.calls[k]) = UPSERT_BATCH
  /\ batches.pc = "ret" =>
       /\ Concat(batches.calls) = [i \in 1..batches.changed |-> i]
       /\ Len(batches.calls) = CeilDiv(batches.changed, UPSERT_BATCH)

\* A call over 101 changed files has sent batches of 50, 50 and 1.
C32_Witness ==
  /\ batches.pc = "ret"
  /\ batches.changed = 101
  /\ Len(batches.calls) = 3
  /\ Len(batches.calls[1]) = UPSERT_BATCH
  /\ Len(batches.calls[3]) = 1

\* The refresh of invocation p has succeeded.
Refreshed(p) == pc[p] = "done" /\ run[p].mode = "refresh"

\* The stateful pass of invocation p over a non-empty registry read a
\* status that a refresh was the last to write, and has entered its loop.
AfterRefresh(p) ==
  /\ run[p].mode = "stateful"
  /\ run[p].status0.stored
  /\ run[p].status0.lastRefresh = Now
  /\ InFolder(p) \/ pc[p] = "persist" \/ CompletedStateful(p)

\* C33 as stated: a successful refresh replaces the registry with the fresh
\* listing and writes cursor 0 and totalFolders, the length of the new
\* registry, keeping every other field of the status.
C33_RefreshKeepsOtherFields ==
  Refreshed(1) =>
    /\ kvFolderIds = run[1].folderIds
    /\ kvStatus = [run[1].status EXCEPT !.stored = TRUE, !.cursor = 0,
                                        !.totalFolders = Len(kvFolderIds)]

\* C33, amended: a successful refresh replaces the registry with the fresh
\* listing and writes cursor 0, totalFolders, the length of the new
\* registry, and lastRefresh, the time of the refresh, keeping lastRun and
\* counts; the next stateful run starts at the first folder of the registry.
C33_RefreshResets ==
  /\ Refreshed(1) =>
       /\ kvFolderIds = run[1].folderIds
       /\ kvStatus.stored
       /\ kvStatus.cursor = 0
       /\ kvStatus.totalFolders = Len(kvFolderIds)
       /\ kvStatus.lastRefresh = Now
       /\ kvStatus.lastRun = run[1].status.lastRun
       /\ kvStatus.counts = run[1].status.counts
  /\ AfterRefresh(1) =>
       /\ run[1].cursor0 = 0
       /\ run[1].visited # <<>> => run[1].visited[1] = run[1].folderIds[1]

\* A stateful run that follows a refresh to <<1, 2, 3>>, itself following a
\* run that had written the status, has visited folder 1 first.
C33_Witness ==
  /\ AfterRefresh(1)
  /\ CompletedStateful(1)
  /\ run[1].status0.lastRun = Now
  /\ run[1].folderIds = <<1, 2, 3>>
  /\ run[1].visited = <<1, 2>>

\* C34: a manual run requested with stateless=1 executes in stateless mode
\* and a manual run without the stateless parameter in stateful mode.
C34_StatelessOnRequest ==
  \A p \in Procs :
    run[p].req.manual =>
      /\ run[p].req.stateless = "1" => run[p].mode = "stateless"
      /\ run[p].req.stateless = "absent" => run[p].mode = "stateful"

\* C35: for every value of the limitFolders, maxChanged and start request
\* parameters a manual run uses limitFolders within 1..100, maxChanged >= 0
\* and start >= 0, and visits at most 100 folders.
C35_ParametersClamped ==
  \A p \in Procs :
    run[p].req.manual =>
      /\ run[p].req.limitFolders \in 1..LIMIT_FOLDERS_CAP
      /\ run[p].req.maxChanged # NaN /\ run[p].req.maxChanged >= 0
      /\ run[p].req.start # NaN /\ run[p].req.start >= 0
      /\ Len(run[p].visited) <= LIMIT_FOLDERS_CAP

\* The call has returned the descriptor or raised a transfer failure.
UploadOver == upload.pc \in {"returned", "thrown"}

\* C36: every started call of uploadResumableInChunks terminates, by
\* returning after a success response or by raising a transfer failure;
\* a success response is to the last request and ends the call, every
\* chunk carries at least one byte read since the chunk before, and a
\* stream of n bytes takes at most n chunks and the finalize request.
C36_Terminates ==
  /\ [](/\ \A i \in 1..Len(Requests) :
             Requests[i].status = "ok" =>
               i = Len(Requests) /\ upload.pc = "returned"
        /\ upload.pc = "returned" =>
             Requests[Len(Requests)].status = "ok"
        /\ \A i \in 1..Len(Requests) :
             IsChunk(i) => Len(Requests[i].body) >= 1
        /\ Len(Requests) <= upload.size + 1)
  /\ (upload.pc # "idle") ~> UploadOver

\* A stream of four bytes was sent as two chunks, both accepted in part,
\* and the finalize request was answered with success.
C36_Witness ==
  /\ upload.pc = "returned"
  /\ upload.size = MaxBytes
  /\ Len(Requests) = 3
  /\ IsChunk(1) /\ IsChunk(2) /\ ~IsChunk(3)

\* The request carried an x-admin-token equal to the configured ADMIN_TOKEN.
TokenMatches ==
  /\ admin.adminToken \notin {EnvUndefined, ""}
  /\ admin.token = admin.adminToken

\* C37: a request to an admin reindex route whose x-admin-token does not
\* equal the configured ADMIN_TOKEN, or any request when no ADMIN_TOKEN is
\* configured, is rejected: its handler makes no remote call and starts no
\* run, and the Reindex Status, the Folder Registry and the Signature Store
\* stay as they were; a request with the configured token is let through.
C37_AdminOnly ==
  admin.pc # "idle" =>
    IF TokenMatches THEN admin.pc # "rejected"
    ELSE /\ admin.pc = "rejected"
         /\ ~admin.remote
         /\ \A p \in Procs : pc[p] = "idle"
         /\ started = 0
         /\ kvStatus = AbsentStatus
         /\ kvFolderIds = <<>>
         /\ \A f \in AllFolders : kvSeen[f] = EmptyMap
         /\ \A f \in AllFiles : vecIndex[f] = NoVec

\* A run request without the header was rejected by a deployment whose
\* ADMIN_TOKEN is set.
C37_Witness ==
  /\ admin.pc = "rejected"
  /\ admin.route = "run"
  /\ admin.token = HeaderNull
  /\ admin.adminToken = "s1"

\* C38: at most one model inference on the work canvas is in flight at any
\* time, for every interleaving of clicks, slider input events, image loads
\* and the completion of the model load.
C38_OneInference == app.running <= 1

\* An inference that read the latest slider settings is in flight and no
\* adjustment is pending.
Rerun ==
  app.running >= 1 /\ app.used = app.slider /\ ~app.pendingAutoUpdate

\* C39: while an image is loaded, a slider adjustment made while an
\* inference is running starts no inference in that step and is recorded
\* as pending, and every pending adjustment of a running job is eventually
\* followed by a re-run with the latest slider settings and a clear pending
\* flag, unless the image has been removed.
C39_AdjustmentDeferred ==
  /\ [][(app'.slider # app.slider /\ app.running >= 1 /\ app.loadedImage)
          => (app'.started = app.started /\ app'.pendingAutoUpdate)]_vars
  /\ (app.running >= 1 /\ app.pendingAutoUpdate)
       ~> (Rerun \/ ~app.loadedImage)

====
